---------------------------- MODULE Spec2Model ----------------------------
(***************************************************************************)
(* A model of the translation gateway of XUnity-Moil-LLMTranslateGUI-C++   *)
(* (src/TranslationServer.cpp, src/ConfigManager.h).                       *)
(*                                                                         *)
(* Threads: the UI thread (updateConfig, clearAllContexts, startServer,    *)
(* stopServer), the server thread (runServerLoop) and the workers of the   *)
(* httplib thread pool (the GET / handler, performTranslation,             *)
(* performSingleTranslationAttempt).  A step of a thread is one access to  *)
(* shared state (a mutex-protected section, a read or write of             *)
(* m_stopRequested, an event of the upstream request) together with the    *)
(* thread-local code that follows it.                                      *)
(*                                                                         *)
(* A QString is a sequence of characters, each a one-element string; the   *)
(* four characters of the Chinese failure phrase are written "u7ffb",      *)
(* "u8bd1", "u5931", "u8d25".                                              *)
(***************************************************************************)
EXTENDS Integers, Sequences, FiniteSets, TLC

VARIABLES
    m_config,           \* AppConfig m_config
    m_apiKeys,          \* std::vector<QString> m_apiKeys
    m_currentKeyIndex,  \* m_currentKeyIndex (0-based)
    m_contexts,         \* std::map<std::string, Context> m_contexts
    m_stopRequested,    \* the stop flag
    m_running,          \* m_running
    m_svr,              \* m_svr: "null", or the state of the httplib::Server
    mutex,              \* owner of m_keyMutex, m_configMutex, m_contextMutex
    ui,                 \* the UI thread: position and the argument of its call
    sv,                 \* the server thread (m_serverThread): position
    wk,                 \* the workers: position and locals of each
    gh                  \* history variables (observations, no program state)

vars == <<m_config, m_apiKeys, m_currentKeyIndex, m_contexts, m_stopRequested,
          m_running, m_svr, mutex, ui, sv, wk, gh>>

-----------------------------------------------------------------------------
(* Bounds of the model.                                                    *)

\* largest context_num a configuration carries
MaxCap == 2
\* key-rotation calls recorded since the last updateConfig
MaxKeyLog == 4
\* attempts of one request that the upstream lets fail where two workers
\* draw keys side by side
MaxFails == 1

-----------------------------------------------------------------------------
(* QString helpers.                                                        *)

Upper == <<"A","B","C","D","E","F","G","H","I","J","K","L","M",
           "N","O","P","Q","R","S","T","U","V","W","X","Y","Z">>
Lower == <<"a","b","c","d","e","f","g","h","i","j","k","l","m",
           "n","o","p","q","r","s","t","u","v","w","x","y","z">>

\* Qt::CaseInsensitive comparison folds case
FoldChar(c) ==
    IF \E i \in 1..26 : Upper[i] = c
    THEN Lower[CHOOSE i \in 1..26 : Upper[i] = c]
    ELSE c

Fold(s) == [i \in 1..Len(s) |-> FoldChar(s[i])]

IsSpace(c) == c \in {" ", "\t", "\n", "\r"}

\* QString::startsWith(p, cs)
StartsWith(s, p) == Len(p) <= Len(s) /\ SubSeq(s, 1, Len(p)) = p
StartsWithCI(s, p) == StartsWith(Fold(s), Fold(p))

\* QString::contains(p, cs)
Contains(s, p) ==
    \E i \in 1..(Len(s) - Len(p) + 1) : SubSeq(s, i, i + Len(p) - 1) = p
ContainsCI(s, p) == Contains(Fold(s), Fold(p))

\* QString::trimmed(): whitespace removed from both ends
RECURSIVE TrimLeft(_)
TrimLeft(s) ==
    IF s # <<>> /\ IsSpace(Head(s)) THEN TrimLeft(Tail(s)) ELSE s

RECURSIVE TrimRight(_)
TrimRight(s) ==
    IF s # <<>> /\ IsSpace(s[Len(s)])
    THEN TrimRight(SubSeq(s, 1, Len(s) - 1)) ELSE s

trimmed(s) == TrimRight(TrimLeft(s))

\* QString::split(',', Qt::SkipEmptyParts): the parts between commas, the
\* zero-length ones dropped, each part as it stands (not trimmed)
RECURSIVE SplitAcc(_, _, _)
SplitAcc(s, cur, acc) ==
    IF s = <<>>
    THEN IF cur = <<>> THEN acc ELSE Append(acc, cur)
    ELSE IF Head(s) = ","
         THEN SplitAcc(Tail(s), <<>>,
                       IF cur = <<>> THEN acc ELSE Append(acc, cur))
         ELSE SplitAcc(Tail(s), Append(cur, Head(s)), acc)

splitSkipEmpty(s) == SplitAcc(s, <<>>, <<>>)

-----------------------------------------------------------------------------
(* Program constants.                                                      *)

MAX_RETRY_COUNT == 5
RETRY_DELAY_MS == 1000
\* the slice of the backoff sleep, QThread::msleep(100)
SLEEP_SLICE_MS == 100
BackoffTicks == RETRY_DELAY_MS \div SLEEP_SLICE_MS

STR_ERROR == <<"E","r","r","o","r">>
STR_CN_FAILED == <<"u7ffb","u8bd1","u5931","u8d25">>
STR_TRANSLATION_FAILED ==
    <<"t","r","a","n","s","l","a","t","i","o","n"," ","f","a","i","l","e","d">>
\* the body of the HTTP 500 reply
STR_REPLY_FAILED ==
    <<"T","r","a","n","s","l","a","t","i","o","n"," ","F","a","i","l","e","d">>

\* The mutant of isValidTranslationResult: the "Error" prefix test left out.
isValid_NoErrorPrefix(result) ==
    /\ result # <<>>
    /\ ~ContainsCI(result, STR_CN_FAILED)
    /\ ~ContainsCI(result, STR_TRANSLATION_FAILED)
    /\ Len(result) > 0

isValidTranslationResult(result) ==
    /\ result # <<>>
    /\ ~StartsWithCI(result, STR_ERROR)
    /\ ~ContainsCI(result, STR_CN_FAILED)
    /\ ~ContainsCI(result, STR_TRANSLATION_FAILED)
    /\ Len(result) > 0

-----------------------------------------------------------------------------
(* The placeholder codec.                                                  *)

Digits == <<"0","1","2","3","4","5","6","7","8","9">>

\* QString::arg(int): the decimal digits of n
RECURSIVE NumStr(_)
NumStr(n) ==
    IF n < 10 THEN <<Digits[n + 1]>>
    ELSE NumStr(n \div 10) \o <<Digits[(n % 10) + 1]>>

\* QString("[T_%1]").arg(n)
TokenKey(n) == <<"[","T","_">> \o NumStr(n) \o <<"]">>

At(s, p) == IF p >= 1 /\ p <= Len(s) THEN s[p] ELSE "<none>"

\* The length of the match of the freeze regex that starts at position p of
\* s, 0 when none does.  The alternatives are tried in the order of the
\* pattern: {{.*?}} (the dot matches no line feed), <[^>]+>, the two-character
\* escapes \r\n, \n, \r, \t, then CR LF, LF, CR, TAB.
FreezeMatchLen(s, p) ==
    LET braces ==
            {q \in (p + 2)..(Len(s) - 1) :
                /\ s[q] = "}" /\ s[q + 1] = "}"
                /\ \A j \in (p + 2)..(q - 1) : s[j] # "\n"}
        closers == {q \in (p + 2)..Len(s) : s[q] = ">"}
        Min(S) == CHOOSE x \in S : \A y \in S : x <= y
    IN  IF At(s, p) = "{" /\ At(s, p + 1) = "{" /\ braces # {}
        THEN Min(braces) + 2 - p
        ELSE IF At(s, p) = "<" /\ At(s, p + 1) \notin {">", "<none>"}
                /\ closers # {}
        THEN Min(closers) + 1 - p
        ELSE IF At(s, p) = "\\" /\ At(s, p + 1) = "r"
                /\ At(s, p + 2) = "\\" /\ At(s, p + 3) = "n"
        THEN 4
        ELSE IF At(s, p) = "\\" /\ At(s, p + 1) \in {"n", "r", "t"}
        THEN 2
        ELSE IF At(s, p) = "\r" /\ At(s, p + 1) = "\n"
        THEN 2
        ELSE IF At(s, p) \in {"\n", "\r", "\t"}
        THEN 1
        ELSE 0

\* The loop of freezeEscapesLocal from position p on, with the escape map
\* and its counter so far; the result is the rewritten text and the map (a
\* sequence whose (n+1)-th element is the fragment of "[T_n]").
RECURSIVE FreezeFrom(_, _, _, _)
FreezeFrom(s, p, out, map) ==
    IF p > Len(s) THEN [text |-> out, map |-> map]
    ELSE LET n == FreezeMatchLen(s, p)
         IN  IF n = 0
             THEN FreezeFrom(s, p + 1, Append(out, s[p]), map)
             ELSE FreezeFrom(s, p + n,
                             out \o <<" ">> \o TokenKey(Len(map)) \o <<" ">>,
                             Append(map, SubSeq(s, p, p + n - 1)))

freezeEscapesLocal(input) == FreezeFrom(input, 1, <<>>, <<>>)

-----------------------------------------------------------------------------
(* Configurations.                                                         *)

\* AppConfig: the fields the server reads in an attempt.  port, max_threads
\* (read when the server starts), language (the language of the log lines),
\* glossary_path and glossary_history are left out.
AppConfig(addr, key, model, sys, pre, num, temp, gloss) ==
    [api_address |-> addr, api_key |-> key, model_name |-> model,
     system_prompt |-> sys, pre_prompt |-> pre, context_num |-> num,
     temperature |-> temp, enable_glossary |-> gloss]

\* AppConfig(): the defaults of the declaration
DefaultConfig ==
    AppConfig("https://api.openai.com/v1",
              <<"s","k","-","x","x","x","x","x","x","x","x">>,
              "gpt-3.5-turbo", "sysDefault", <<"D", ":">>, 5, 10, FALSE)

CfgA == AppConfig("urlA", <<"a", ",", "b">>, "modelA", "sysA", <<"P", ":">>,
                  1, 10, FALSE)
CfgB == AppConfig("urlB", <<" ", "c", " ">>, "modelB", "sysB", <<"Q", ":">>,
                  MaxCap, 7, TRUE)
\* a configuration whose credential string holds no key
CfgNoKey == [CfgA EXCEPT !.api_key = <<",">>]

ReqConfigs == {CfgA, CfgB, CfgNoKey}

\* configurations with one key that differ in context_num alone
CapConfigs ==
    {[CfgA EXCEPT !.api_key = <<"k">>, !.context_num = n] : n \in 0..MaxCap}

\* The credential pool updateConfig derives from a configuration:
\* split on ',', empty parts skipped, each part trimmed.
ParseKeys(config) ==
    LET keys == splitSkipEmpty(config.api_key)
    IN  [i \in 1..Len(keys) |-> trimmed(keys[i])]

-----------------------------------------------------------------------------
(* State.                                                                  *)

\* the value of a local that holds nothing
Nil == [nil |-> TRUE]

\* the addresses requests come from
ClientIPs == {"ip1", "ip2"}

\* generateClientId: the first 8 hex digits of MD5(ip), one per address here
generateClientId(ip) == IF ip = "ip1" THEN "id1" ELSE "id2"

\* A request's locals as a worker of the pool takes it up.
FreshWorker ==
    [pc |-> "idle", text |-> <<>>, clientIP |-> "none", retryCount |-> 0,
     tick |-> 0, cfg |-> Nil, apiKey |-> <<>>, sent |-> Nil, reply |-> Nil,
     attemptResult |-> <<>>, resultText |-> <<>>, http |-> Nil]

\* What is observed of a request: calls of performSingleTranslationAttempt,
\* retries-exhausted log lines, pairs appended, whether the stop flag was set
\* while the request stood before an attempt's entry check, the model_name
\* of the last updateConfig since the request's last snapshot, the one
\* expected of the running attempt, and m_config as it was when the attempt
\* took its snapshot; and the events emitted for it: workStarted,
\* workFinished and the success it carried last, and the retry and
\* retry-success log lines.
FreshObs ==
    [nAttempts |-> 0, nExhausted |-> 0, nAppend |-> 0, cancelled |-> FALSE,
     lastReload |-> "none", expectModel |-> "none", snap |-> Nil,
     nStarted |-> 0, nFinished |-> 0, success |-> FALSE,
     nRetry |-> 0, nRetrySuccess |-> 0]

\* The server as constructed and configured by a first updateConfig(config),
\* with workers W; started: whether startServer has run and the server
\* listens; logKeys: whether the keys getNextApiKey returns are recorded.
InitWith(W, config, started, logKeys) ==
    /\ m_config = config
    /\ m_apiKeys = ParseKeys(config)
    /\ m_currentKeyIndex = 0
    /\ m_contexts = <<>>
    /\ m_stopRequested = FALSE
    /\ m_running = started
    /\ m_svr = IF started THEN "listening" ELSE "null"
    /\ mutex = [key |-> "free", config |-> "free", context |-> "free"]
    /\ ui = [pc |-> "idle", arg |-> Nil]
    /\ sv = IF started THEN "listening" ELSE "none"
    /\ wk = [w \in W |-> FreshWorker]
    /\ gh = [w |-> [w \in W |-> FreshObs], touch |-> <<>>,
             keyLog |-> <<>>, logKeys |-> logKeys]

Workers == DOMAIN wk

\* positions of a request at which no attempt is past its entry check of the
\* stop flag: before the first attempt, in the backoff, at the start of an
\* attempt, between two attempts
BeforeEntryCheck == {"queued", "pt_head", "backoff", "att_start", "pt_ret"}
\* positions inside performSingleTranslationAttempt after the snapshot
InAttempt == {"getkey", "ctxread", "wait", "after_wait", "process"}
\* positions inside performTranslation
InPerformTranslation ==
    {"pt_head", "backoff", "att_start", "pt_ret"} \cup InAttempt

-----------------------------------------------------------------------------
(* The context store.                                                      *)

\* The mutant of TrimFront: the newest pairs are dropped, not the oldest.
TrimFront_DropNewest(history, max_len) ==
    IF Len(history) > max_len THEN SubSeq(history, 1, max_len) ELSE history

\* while (ctx.history.size() > ctx.max_len) ctx.history.pop_front();
RECURSIVE TrimFront(_, _)
TrimFront(history, max_len) ==
    IF Len(history) > max_len THEN TrimFront(Tail(history), max_len)
    ELSE history

\* The mutant of PushPair: the pair is pushed and the history is not trimmed.
PushPair_NoTrim(ctx, pair) ==
    [ctx EXCEPT !.history = Append(ctx.history, pair)]

\* ctx.history.push_back(pair), then the trim to ctx.max_len
PushPair(ctx, pair) ==
    [ctx EXCEPT !.history = TrimFront(Append(ctx.history, pair), ctx.max_len)]

\* The mutant of ReadContext: the cap is stored and the history is not trimmed.
ReadContext_NoTrim(ctx, context_num) ==
    [ctx EXCEPT !.max_len = context_num]

\* the history read of an attempt: the cap is set to the snapshot's
\* context_num and the history trimmed to it
ReadContext(ctx, context_num) ==
    [max_len |-> context_num,
     history |-> TrimFront(ctx.history, context_num)]

\* m_contexts[clientId]: the entry, created when absent.  Context is declared
\* in TranslationServer.h, which is not among the sources: a created entry
\* has an empty history and the cap d the declaration gives it.
EntryOf(contexts, id, d) ==
    IF id \in DOMAIN contexts THEN contexts[id]
    ELSE [max_len |-> d, history |-> <<>>]

DefaultCaps == 0..MaxCap

-----------------------------------------------------------------------------
(* The key rotator.                                                        *)

\* The mutant of NextKeyIndex: the cursor is not advanced.
NextKeyIndex_Stuck(index, size) == index

\* (m_currentKeyIndex + 1) % m_apiKeys.size()
NextKeyIndex(index, size) == (index + 1) % size

\* the record of the keys returned since the last updateConfig
LogKey(key) ==
    IF gh.logKeys /\ Len(gh.keyLog) < MaxKeyLog
    THEN Append(gh.keyLog, key) ELSE gh.keyLog

\* The record, where one is kept, of the pairs appended to the history of
\* the one client of the run since its entry was created or the store last
\* cleared: a pair is appended, the store is cleared.
LogPair(g, pair) ==
    IF "appended" \in DOMAIN g
    THEN [g EXCEPT !.appended = Append(@, pair)] ELSE g
LogCleared(g) ==
    IF "appended" \in DOMAIN g THEN [g EXCEPT !.appended = <<>>] ELSE g

-----------------------------------------------------------------------------
(* The workers: the GET / handler, performTranslation and                  *)
(* performSingleTranslationAttempt.                                        *)

\* a request without a text parameter
ABSENT == <<"<no text>">>

SetWk(w, r) == wk' = [wk EXCEPT ![w] = r]
SetObs(w, r) == gh' = [gh EXCEPT !.w[w] = r]

\* lines 480-548 for a content that holds no <think>, <tm> or <tl> span and
\* no [T_n] token, under an empty rule set of RegexManager: the content
\* trimmed
ReconstructPlain(content) == trimmed(content)

\* the locals of performSingleTranslationAttempt go out of scope
LeaveAttempt(r, result) ==
    [r EXCEPT !.pc = "pt_ret", !.cfg = Nil, !.apiKey = <<>>, !.sent = Nil,
              !.reply = Nil, !.attemptResult = result]

\* ... and so do the observations of the attempt
LeaveObs(o) == [o EXCEPT !.snap = Nil, !.expectModel = "none"]

\* performTranslation returns result to the handler
LeaveTranslation(r, result) ==
    [r EXCEPT !.pc = "h_fin", !.tick = 0, !.attemptResult = <<>>,
              !.resultText = result]

\* httplib accepts a connection and queues it for a worker of the pool
Accept(w, texts, ips) ==
    /\ wk[w].pc = "idle"
    /\ m_svr = "listening"
    /\ \E t \in texts, ip \in ips :
          SetWk(w, [FreshWorker EXCEPT !.pc = "queued", !.text = t,
                                       !.clientIP = ip])
    /\ SetObs(w, FreshObs)
    /\ UNCHANGED <<m_config, m_apiKeys, m_currentKeyIndex, m_contexts,
                   m_stopRequested, m_running, m_svr, mutex, ui, sv>>

\* The handler up to the loop of performTranslation (lines 229-293): a
\* request without text, or with blank text, is answered 200 with an empty
\* body; otherwise the language is read under m_configMutex (twice) and
\* workStarted is emitted (line 254) and performTranslation is entered.
HandlerStart(w) ==
    /\ wk[w].pc = "queued"
    /\ IF wk[w].text = ABSENT \/ trimmed(wk[w].text) = <<>>
       THEN /\ SetWk(w, [wk[w] EXCEPT
                            !.pc = "idle",
                            !.http = [status |-> 200, body |-> <<>>]])
            /\ UNCHANGED gh
       ELSE /\ mutex.config = "free"
            /\ SetWk(w, [wk[w] EXCEPT !.pc = "pt_head",
                                      !.text = trimmed(wk[w].text)])
            /\ SetObs(w, [gh.w[w] EXCEPT !.nStarted = @ + 1])
    /\ UNCHANGED <<m_config, m_apiKeys, m_currentKeyIndex, m_contexts,
                   m_stopRequested, m_running, m_svr, mutex, ui, sv>>

\* The mutant of LoopContinues: one attempt more than MAX_RETRY_COUNT.
LoopContinues_OffByOne(retryCount) == retryCount <= MAX_RETRY_COUNT

\* while (retryCount < MAX_RETRY_COUNT)
LoopContinues(retryCount) == retryCount < MAX_RETRY_COUNT

\* if (retryCount > 0): the retry log line and the backoff (line 300)
RetryLogged(retryCount) == retryCount > 0

\* The head of the retry loop (lines 294-305): the stop check, and the
\* retry log line before each attempt but the first.
PtHead(w) ==
    /\ wk[w].pc = "pt_head"
    /\ IF m_stopRequested
       THEN /\ SetWk(w, LeaveTranslation(wk[w], <<>>))
            /\ UNCHANGED gh
       ELSE IF RetryLogged(wk[w].retryCount)
       THEN /\ SetWk(w, [wk[w] EXCEPT !.pc = "backoff", !.tick = 0])
            /\ SetObs(w, [gh.w[w] EXCEPT !.nRetry = @ + 1])
       ELSE /\ SetWk(w, [wk[w] EXCEPT !.pc = "att_start"])
            /\ UNCHANGED gh
    /\ UNCHANGED <<m_config, m_apiKeys, m_currentKeyIndex, m_contexts,
                   m_stopRequested, m_running, m_svr, mutex, ui, sv>>

\* One turn of the backoff loop (lines 306-309): the stop check, then a
\* sleep of 100 ms; after the last sleep the attempt is called.
Backoff(w) ==
    /\ wk[w].pc = "backoff"
    /\ IF m_stopRequested
       THEN SetWk(w, LeaveTranslation(wk[w], <<>>))
       ELSE IF wk[w].tick + 1 < BackoffTicks
       THEN SetWk(w, [wk[w] EXCEPT !.tick = @ + 1])
       ELSE SetWk(w, [wk[w] EXCEPT !.pc = "att_start", !.tick = 0])
    /\ UNCHANGED <<m_config, m_apiKeys, m_currentKeyIndex, m_contexts,
                   m_stopRequested, m_running, m_svr, mutex, ui, sv, gh>>

\* The mutant of EntryStopCheck: the attempt does not look at the stop flag.
EntryStopCheck_Never(stop) == FALSE

\* if (m_stopRequested) return "";  (line 342)
EntryStopCheck(stop) == stop

\* The mutant of Snapshot: the assignment cfg = m_config is missing and the
\* attempt runs on the default-constructed AppConfig.
Snapshot_Default(w) == DefaultConfig

\* cfg = m_config, under m_configMutex (lines 346-350)
Snapshot(w) == m_config

\* The call of performSingleTranslationAttempt (lines 313, 341-350): the
\* entry check of the stop flag, then the configuration snapshot.
AttStart(w) ==
    /\ wk[w].pc = "att_start"
    /\ IF EntryStopCheck(m_stopRequested)
       THEN /\ SetWk(w, LeaveAttempt(wk[w], <<>>))
            /\ SetObs(w, [LeaveObs(gh.w[w]) EXCEPT !.nAttempts = @ + 1])
       ELSE /\ mutex.config = "free"
            /\ SetWk(w, [wk[w] EXCEPT !.pc = "getkey", !.cfg = Snapshot(w)])
            /\ SetObs(w, [gh.w[w] EXCEPT
                              !.nAttempts = @ + 1,
                              !.snap = m_config,
                              !.lastReload = "none",
                              !.expectModel =
                                  IF gh.w[w].nAttempts > 0
                                  THEN gh.w[w].lastReload ELSE "none"])
    /\ UNCHANGED <<m_config, m_apiKeys, m_currentKeyIndex, m_contexts,
                   m_stopRequested, m_running, m_svr, mutex, ui, sv>>

\* The mutant of getNextApiKey: an empty pool gives a key.
getNextApiKey_Default(keys, index) ==
    IF keys = <<>> THEN <<"k">> ELSE keys[index + 1]

\* the key getNextApiKey returns (lines 579-580): none of an empty pool, the
\* key at the cursor otherwise
getNextApiKey(keys, index) ==
    IF keys = <<>> THEN <<>> ELSE keys[index + 1]

\* getNextApiKey and the test of its result (lines 352-356, 577-583)
GetKey(w) ==
    /\ wk[w].pc = "getkey"
    /\ mutex.key = "free"
    /\ LET key == getNextApiKey(m_apiKeys, m_currentKeyIndex)
           keyLog == IF m_apiKeys = <<>> THEN gh.keyLog ELSE LogKey(key)
       IN  /\ m_currentKeyIndex' =
                  IF m_apiKeys = <<>> THEN m_currentKeyIndex
                  ELSE NextKeyIndex(m_currentKeyIndex, Len(m_apiKeys))
           /\ IF key = <<>>
              THEN /\ SetWk(w, LeaveAttempt(wk[w], <<>>))
                   /\ gh' = [gh EXCEPT !.keyLog = keyLog,
                                       !.w[w] = LeaveObs(@)]
              ELSE /\ SetWk(w, [wk[w] EXCEPT !.pc = "ctxread",
                                             !.apiKey = key])
                   /\ gh' = [gh EXCEPT !.keyLog = keyLog]
    /\ UNCHANGED <<m_config, m_apiKeys, m_contexts, m_stopRequested,
                   m_running, m_svr, mutex, ui, sv>>

\* The mutant of PayloadModel: the model is read from m_config, not from the
\* attempt's snapshot.
PayloadModel_Live(w) == m_config.model_name

\* payload["model"] = cfg.model_name  (line 416)
PayloadModel(w) == wk[w].cfg.model_name

\* The request the attempt sends (lines 361-426): processedText is the
\* frozen text (RegexManager holds no rule), term extraction is asked for
\* when the glossary is on and the text is longer than 5, and the messages
\* are the system prompt, the history read and the user turn.
Payload(w, history) ==
    LET cfg == wk[w].cfg
        processedText == freezeEscapesLocal(wk[w].text).text
    IN  [url |-> cfg.api_address,
         key |-> wk[w].apiKey,
         model |-> PayloadModel(w),
         temperature |-> cfg.temperature,
         system |-> cfg.system_prompt,
         extraction |-> (cfg.enable_glossary /\ Len(wk[w].text) > 5),
         history |-> history,
         user |-> cfg.pre_prompt \o processedText]

\* The history read under m_contextMutex (lines 400-410), then the payload
\* and the POST (lines 412-426).
CtxRead(w) ==
    /\ wk[w].pc = "ctxread"
    /\ mutex.context = "free"
    /\ LET id == generateClientId(wk[w].clientIP)
           ctx == ReadContext(EntryOf(m_contexts, id, 0),
                              wk[w].cfg.context_num)
       IN  /\ m_contexts' = (id :> ctx) @@ m_contexts
           /\ SetWk(w, [wk[w] EXCEPT !.pc = "wait",
                                     !.sent = Payload(w, ctx.history)])
           /\ gh' = [gh EXCEPT !.touch =
                                  (id :> wk[w].cfg.context_num) @@ @]
    /\ UNCHANGED <<m_config, m_apiKeys, m_currentKeyIndex, m_stopRequested,
                   m_running, m_svr, mutex, ui, sv>>

\* what the upstream answers: a transport error, a body that is no JSON, a
\* JSON body without choices, or a content
Replies(contents) ==
    {[kind |-> k, content |-> <<>>] : k \in {"neterror", "badjson", "nochoices"}}
        \cup {[kind |-> "content", content |-> c] : c \in contents}

\* a reply that fails the attempt
ReplyFails(r) ==
    r.kind # "content" \/ ~isValidTranslationResult(ReconstructPlain(r.content))

\* loop.exec() returns because the reply finished (line 444); maxFails: how
\* many attempts of one request the upstream lets fail
ReplyFinished(w, replies, maxFails) ==
    /\ wk[w].pc = "wait"
    /\ \E r \in replies :
          /\ ReplyFails(r) => wk[w].retryCount < maxFails
          /\ SetWk(w, [wk[w] EXCEPT !.pc = "after_wait", !.reply = r])
    /\ UNCHANGED <<m_config, m_apiKeys, m_currentKeyIndex, m_contexts,
                   m_stopRequested, m_running, m_svr, mutex, ui, sv, gh>>

\* loop.exec() returns because timeoutTimer fired (lines 440-446)
Timeout(w) ==
    /\ wk[w].pc = "wait"
    /\ SetWk(w, [wk[w] EXCEPT !.pc = "after_wait",
                              !.reply = [kind |-> "timeout", content |-> <<>>]])
    /\ UNCHANGED <<m_config, m_apiKeys, m_currentKeyIndex, m_contexts,
                   m_stopRequested, m_running, m_svr, mutex, ui, sv, gh>>

\* The mutant of PollSeesStop: the 100 ms timer does not look at the flag.
PollSeesStop_Never(stop) == FALSE

\* if (m_stopRequested) in the checkTimer callback (line 433)
PollSeesStop(stop) == stop

\* checkTimer fires with the stop flag set: the reply is aborted and the
\* loop quit (lines 432-437)
PollStop(w) ==
    /\ wk[w].pc = "wait"
    /\ PollSeesStop(m_stopRequested)
    /\ SetWk(w, [wk[w] EXCEPT !.pc = "after_wait",
                              !.reply = [kind |-> "aborted", content |-> <<>>]])
    /\ UNCHANGED <<m_config, m_apiKeys, m_currentKeyIndex, m_contexts,
                   m_stopRequested, m_running, m_svr, mutex, ui, sv, gh>>

\* After the wait (lines 449-463): the stop check, then the timeout check.
AfterWait(w) ==
    /\ wk[w].pc = "after_wait"
    /\ IF m_stopRequested \/ wk[w].reply.kind \in {"timeout", "aborted"}
       THEN /\ SetWk(w, LeaveAttempt(wk[w], <<>>))
            /\ SetObs(w, LeaveObs(gh.w[w]))
       ELSE /\ SetWk(w, [wk[w] EXCEPT !.pc = "process"])
            /\ UNCHANGED gh
    /\ UNCHANGED <<m_config, m_apiKeys, m_currentKeyIndex, m_contexts,
                   m_stopRequested, m_running, m_svr, mutex, ui, sv>>

\* The mutant of AppendsPair: the result of a content is appended and
\* returned without validation.
AppendsPair_Unvalidated(reply, resultText) == reply.kind = "content"

\* whether the attempt appends its pair and returns its result (lines 465,
\* 476, 552): the reply holds a content and the result is valid
AppendsPair(reply, resultText) ==
    reply.kind = "content" /\ isValidTranslationResult(resultText)

\* The reply is read (lines 465-575).  A transport error, a body that is
\* no JSON and a body without choices fail the attempt; a content is
\* reconstructed, and when the result is valid the pair (user turn, result)
\* is appended under m_contextMutex, to the client's entry or to one created
\* on the spot.
Process(w) ==
    /\ wk[w].pc = "process"
    /\ LET r == wk[w].reply
           resultText == ReconstructPlain(r.content)
           id == generateClientId(wk[w].clientIP)
       IN  IF AppendsPair(r, resultText)
           THEN /\ mutex.context = "free"
                /\ \E d \in DefaultCaps :
                      m_contexts' =
                          (id :> PushPair(EntryOf(m_contexts, id, d),
                                          <<wk[w].sent.user, resultText>>))
                              @@ m_contexts
                /\ SetWk(w, LeaveAttempt(wk[w], resultText))
                /\ gh' = [LogPair(gh, <<wk[w].sent.user, resultText>>)
                             EXCEPT
                              !.w[w] = [LeaveObs(@) EXCEPT !.nAppend = @ + 1],
                              !.touch = (id :> wk[w].cfg.context_num) @@ @]
           ELSE /\ SetWk(w, LeaveAttempt(wk[w], <<>>))
                /\ SetObs(w, LeaveObs(gh.w[w]))
                /\ UNCHANGED m_contexts
    /\ UNCHANGED <<m_config, m_apiKeys, m_currentKeyIndex, m_stopRequested,
                   m_running, m_svr, mutex, ui, sv>>

\* The mutant of RetrySuccessLogged: the retry-success line logged for the
\* first attempt as well.
RetrySuccessLogged_Always(retryCount) == TRUE

\* if (retryCount > 0) emit logMessage(SV_RETRY_SUCCESS) (line 318)
RetrySuccessLogged(retryCount) == retryCount > 0

\* performTranslation after the attempt returns (lines 315-329): the stop
\* check, the validation of the attempt's result, the count of the failure
\* and the retries-exhausted log line, then the loop test.
PtRet(w) ==
    /\ wk[w].pc = "pt_ret"
    /\ IF m_stopRequested
       THEN /\ SetWk(w, LeaveTranslation(wk[w], <<>>))
            /\ UNCHANGED gh
       ELSE IF isValidTranslationResult(wk[w].attemptResult)
       THEN /\ SetWk(w, LeaveTranslation(wk[w], wk[w].attemptResult))
            /\ IF RetrySuccessLogged(wk[w].retryCount)
               THEN SetObs(w, [gh.w[w] EXCEPT !.nRetrySuccess = @ + 1])
               ELSE UNCHANGED gh
       ELSE LET n == wk[w].retryCount + 1
                exhausted == n >= MAX_RETRY_COUNT
            IN  /\ IF LoopContinues(n)
                   THEN SetWk(w, [wk[w] EXCEPT !.pc = "pt_head",
                                               !.retryCount = n,
                                               !.attemptResult = <<>>])
                   ELSE SetWk(w, [LeaveTranslation(wk[w], <<>>)
                                     EXCEPT !.retryCount = n])
                /\ IF exhausted
                   THEN SetObs(w, [gh.w[w] EXCEPT !.nExhausted = @ + 1])
                   ELSE UNCHANGED gh
    /\ UNCHANGED <<m_config, m_apiKeys, m_currentKeyIndex, m_contexts,
                   m_stopRequested, m_running, m_svr, mutex, ui, sv>>

\* The mutant of HttpReply: an empty result is answered 200.
HttpReply_Always200(result) == [status |-> 200, body |-> result]

\* lines 265-270: 500 "Translation Failed" for an empty result, else 200
\* with the result
HttpReply(result) ==
    IF result = <<>> THEN [status |-> 500, body |-> STR_REPLY_FAILED]
    ELSE [status |-> 200, body |-> result]

\* The mutant of WorkSuccess: the stop flag is not regarded and an empty
\* result counts as a success.
WorkSuccess_Always(stopRequested, result) == TRUE

\* lines 258-263: the success workFinished carries
WorkSuccess(stopRequested, result) ==
    IF ~stopRequested THEN result # <<>> ELSE FALSE

\* The handler after performTranslation (lines 258-270): workFinished, then
\* the reply; the worker goes back to the pool.
HFin(w) ==
    /\ wk[w].pc = "h_fin"
    /\ SetWk(w, [wk[w] EXCEPT !.pc = "idle",
                              !.http = HttpReply(wk[w].resultText)])
    /\ SetObs(w, [gh.w[w] EXCEPT
                     !.nFinished = @ + 1,
                     !.success = WorkSuccess(m_stopRequested,
                                             wk[w].resultText)])
    /\ UNCHANGED <<m_config, m_apiKeys, m_currentKeyIndex, m_contexts,
                   m_stopRequested, m_running, m_svr, mutex, ui, sv>>

-----------------------------------------------------------------------------
(* The UI thread: updateConfig, clearAllContexts, startServer, stopServer. *)

\* updateConfig takes m_keyMutex (line 147)
UpdateConfigBegin(configs) ==
    /\ ui.pc = "idle"
    /\ mutex.key = "free"
    /\ \E c \in configs : ui' = [pc |-> "upd", arg |-> c]
    /\ mutex' = [mutex EXCEPT !.key = "ui"]
    /\ UNCHANGED <<m_config, m_apiKeys, m_currentKeyIndex, m_contexts,
                   m_stopRequested, m_running, m_svr, sv, wk, gh>>

\* The mutant of RebuiltIndex: the cursor is left where it was.
RebuiltIndex_Kept(index) == index

\* m_currentKeyIndex = 0  (line 156)
RebuiltIndex(index) == 0

\* updateConfig takes m_configMutex, replaces the configuration, rebuilds
\* the key pool, resets the cursor and releases both locks (lines 148-161)
UpdateConfigApply ==
    /\ ui.pc = "upd"
    /\ mutex.config = "free"
    /\ m_config' = ui.arg
    /\ m_apiKeys' = ParseKeys(ui.arg)
    /\ m_currentKeyIndex' = RebuiltIndex(m_currentKeyIndex)
    /\ mutex' = [mutex EXCEPT !.key = "free"]
    /\ ui' = [pc |-> "idle", arg |-> Nil]
    /\ gh' = [gh EXCEPT
                 !.keyLog = <<>>,
                 !.w = [w \in Workers |->
                           IF /\ wk[w].pc \in InPerformTranslation
                              /\ ui.arg.model_name # m_config.model_name
                           THEN [gh.w[w] EXCEPT
                                    !.lastReload = ui.arg.model_name]
                           ELSE gh.w[w]]]
    /\ UNCHANGED <<m_contexts, m_stopRequested, m_running, m_svr, sv, wk>>

\* clearAllContexts takes m_contextMutex and clears the map (lines 591-592)
ClearBegin ==
    /\ ui.pc = "idle"
    /\ mutex.context = "free"
    /\ m_contexts' = <<>>
    /\ mutex' = [mutex EXCEPT !.context = "ui"]
    /\ ui' = [pc |-> "clr", arg |-> Nil]
    /\ gh' = [LogCleared(gh) EXCEPT !.touch = <<>>]
    /\ UNCHANGED <<m_config, m_apiKeys, m_currentKeyIndex, m_stopRequested,
                   m_running, m_svr, sv, wk>>

\* clearAllContexts reads the language under m_configMutex, still holding
\* m_contextMutex, and returns (lines 594-601)
ClearEnd ==
    /\ ui.pc = "clr"
    /\ mutex.config = "free"
    /\ mutex' = [mutex EXCEPT !.context = "free"]
    /\ ui' = [pc |-> "idle", arg |-> Nil]
    /\ UNCHANGED <<m_config, m_apiKeys, m_currentKeyIndex, m_contexts,
                   m_stopRequested, m_running, m_svr, sv, wk, gh>>

\* startServer (lines 170-175): nothing when running; else the flags are
\* set and the server thread is created
StartServer ==
    /\ ui.pc = "idle"
    /\ IF m_running
       THEN UNCHANGED <<m_running, m_stopRequested, sv, ui>>
       ELSE /\ m_running' = TRUE
            /\ m_stopRequested' = FALSE
            /\ sv' = "new"
            /\ ui' = [pc |-> "start_log", arg |-> Nil]
    /\ UNCHANGED <<m_config, m_apiKeys, m_currentKeyIndex, m_contexts,
                   m_svr, mutex, wk, gh>>

\* startServer reads the configuration under m_configMutex and logs the
\* start (lines 179-188)
StartLog ==
    /\ ui.pc = "start_log"
    /\ mutex.config = "free"
    /\ ui' = [pc |-> "idle", arg |-> Nil]
    /\ UNCHANGED <<m_config, m_apiKeys, m_currentKeyIndex, m_contexts,
                   m_stopRequested, m_running, m_svr, mutex, sv, wk, gh>>

\* stopServer (lines 191-195): nothing when not running; else the stop flag
\* is set
StopServer ==
    /\ ui.pc = "idle"
    /\ IF ~m_running
       THEN UNCHANGED <<m_running, m_stopRequested, ui, gh>>
       ELSE /\ m_stopRequested' = TRUE
            /\ m_running' = FALSE
            /\ ui' = [pc |-> "stop_svr", arg |-> Nil]
            /\ gh' = [gh EXCEPT
                         !.w = [w \in Workers |->
                                   IF wk[w].pc \in BeforeEntryCheck
                                   THEN [gh.w[w] EXCEPT !.cancelled = TRUE]
                                   ELSE gh.w[w]]]
    /\ UNCHANGED <<m_config, m_apiKeys, m_currentKeyIndex, m_contexts,
                   m_svr, mutex, sv, wk>>

\* if (m_svr) m_svr->stop();  (line 197).  httplib's stop() closes the
\* listening socket of a running server and does nothing to one that is not
\* listening yet.
SvrStop(svr) == IF svr = "listening" THEN "stopped" ELSE svr

StopSvr ==
    /\ ui.pc = "stop_svr"
    /\ m_svr' = SvrStop(m_svr)
    /\ ui' = [pc |-> "stop_join", arg |-> Nil]
    /\ UNCHANGED <<m_config, m_apiKeys, m_currentKeyIndex, m_contexts,
                   m_stopRequested, m_running, mutex, sv, wk, gh>>

\* stopServer joins the server thread, deletes the server and logs the stop
\* under m_configMutex (lines 199-214)
StopJoin ==
    /\ ui.pc = "stop_join"
    /\ sv = "exited"
    /\ mutex.config = "free"
    /\ sv' = "none"
    /\ m_svr' = "null"
    /\ ui' = [pc |-> "idle", arg |-> Nil]
    /\ UNCHANGED <<m_config, m_apiKeys, m_currentKeyIndex, m_contexts,
                   m_stopRequested, m_running, mutex, wk, gh>>

-----------------------------------------------------------------------------
(* The server thread: runServerLoop.                                       *)

\* m_svr = new httplib::Server()  (line 218)
SvCreate ==
    /\ sv = "new"
    /\ m_svr' = "created"
    /\ sv' = "setup"
    /\ UNCHANGED <<m_config, m_apiKeys, m_currentKeyIndex, m_contexts,
                   m_stopRequested, m_running, mutex, ui, wk, gh>>

\* The thread count and the port are read under m_configMutex and listen()
\* is called (lines 220-278): the socket is bound and the server listens, or
\* the bind fails and listen() returns at once.
SvListen ==
    /\ sv = "setup"
    /\ mutex.config = "free"
    /\ \/ m_svr' = "listening" /\ sv' = "listening"
       \/ m_svr' = m_svr /\ sv' = "exited"
    /\ UNCHANGED <<m_config, m_apiKeys, m_currentKeyIndex, m_contexts,
                   m_stopRequested, m_running, mutex, ui, wk, gh>>

\* listen() returns: the socket was closed by stop() and the pool has run
\* the requests it was given
SvReturn ==
    /\ sv = "listening"
    /\ m_svr = "stopped"
    /\ \A w \in Workers : wk[w].pc = "idle"
    /\ sv' = "exited"
    /\ UNCHANGED <<m_config, m_apiKeys, m_currentKeyIndex, m_contexts,
                   m_stopRequested, m_running, m_svr, mutex, ui, wk, gh>>

-----------------------------------------------------------------------------
(* Specifications.                                                         *)

\* request texts: none, a blank one, a short one and one longer than 5 with
\* a tag to freeze
ReqTexts ==
    {ABSENT, <<" ">>, <<"H", "i">>, <<"L", "i", " ", "<", "b", ">", "!">>}

\* contents of the upstream's answer: a translation, a blank, and the three
\* shapes validation rejects
ReqContents ==
    {<<" ", "o", "k">>,
     <<" ">>,
     <<"e", "R", "R", "O", "R", ":", "x">>,
     <<"x", " ", "T", "r", "a", "n", "s", "l", "a", "t", "i", "o", "n", " ",
       "F", "a", "i", "l", "e", "d">>,
     <<"u7ffb", "u8bd1", "u5931", "u8d25", "!">>}

\* a step of worker w
WorkerStep(w, texts, ips, replies) ==
    \/ Accept(w, texts, ips)
    \/ HandlerStart(w)
    \/ PtHead(w)
    \/ Backoff(w)
    \/ AttStart(w)
    \/ GetKey(w)
    \/ CtxRead(w)
    \/ ReplyFinished(w, replies, MAX_RETRY_COUNT)
    \/ Timeout(w)
    \/ PollStop(w)
    \/ AfterWait(w)
    \/ Process(w)
    \/ PtRet(w)
    \/ HFin(w)

\* a step of the UI thread
UiStep(configs) ==
    \/ UpdateConfigBegin(configs)
    \/ UpdateConfigApply
    \/ ClearBegin
    \/ ClearEnd
    \/ StartServer
    \/ StartLog
    \/ StopServer
    \/ StopSvr
    \/ StopJoin

\* a step of the server thread
ServerStep == SvCreate \/ SvListen \/ SvReturn

\* One worker serving requests of one client, the UI thread and the server
\* thread.
ReqWorkers == {"w1"}

Init == \E c \in ReqConfigs : InitWith(ReqWorkers, c, FALSE, FALSE)

Next ==
    \/ \E w \in ReqWorkers : WorkerStep(w, ReqTexts, {"ip1"}, Replies(ReqContents))
    \/ UiStep(ReqConfigs)
    \/ ServerStep

Spec == Init /\ [][Next]_vars

-----------------------------------------------------------------------------
(* Claims checked under Spec.                                              *)

\* C2: once the stop flag is set, no attempt appends a pair to a client's
\* history.
C2_NoAppendAfterStop ==
    [][\A w \in ReqWorkers :
          m_stopRequested => (gh.w[w].nAppend)' <= gh.w[w].nAppend]_vars

\* C3: when an updateConfig that changes model_name completes between the
\* snapshot of one attempt of a request and the snapshot of the next, the
\* payload of the next attempt carries the model_name that updateConfig set.
C3_HotReloadOnRetry ==
    \A w \in ReqWorkers :
        (wk[w].sent # Nil /\ gh.w[w].expectModel # "none")
            => wk[w].sent.model = gh.w[w].expectModel

\* a retry has sent a payload after a reload that changed model_name
C3_Witness ==
    \E w \in ReqWorkers :
        /\ wk[w].sent # Nil
        /\ wk[w].retryCount > 0
        /\ gh.w[w].expectModel # "none"

C6_BoundedRetry ==
    \A w \in ReqWorkers :
        /\ gh.w[w].nAttempts <= MAX_RETRY_COUNT
        /\ gh.w[w].nExhausted <= 1
        /\ wk[w].retryCount >= MAX_RETRY_COUNT =>
              /\ gh.w[w].nAttempts = MAX_RETRY_COUNT
              /\ gh.w[w].nExhausted = 1
              /\ wk[w].pc \in {"h_fin", "idle"}
              /\ wk[w].resultText = <<>>
              /\ wk[w].pc = "idle" =>
                    wk[w].http = [status |-> 500, body |-> STR_REPLY_FAILED]

\* a request was answered after its fifth attempt failed
C6_Witness ==
    \E w \in ReqWorkers :
        /\ wk[w].pc = "idle"
        /\ wk[w].retryCount = MAX_RETRY_COUNT
        /\ gh.w[w].nExhausted = 1
        /\ wk[w].http # Nil

\* the request of worker w had a text that is not blank
NonBlankRequest(w) ==
    wk[w].text # ABSENT /\ trimmed(wk[w].text) # <<>>

\* C7: a request with non-blank text is answered 200 with an attempt result
\* that is not empty, does not start with "Error" in any case and holds
\* neither failure phrase, or 500 "Translation Failed".
C7_HttpOutcome ==
    \A w \in ReqWorkers :
        (wk[w].pc = "idle" /\ wk[w].http # Nil /\ NonBlankRequest(w)) =>
            \/ wk[w].http = [status |-> 500, body |-> STR_REPLY_FAILED]
            \/ /\ wk[w].http.status = 200
               /\ LET b == wk[w].http.body
                  IN  /\ b # <<>>
                      /\ ~StartsWithCI(b, STR_ERROR)
                      /\ ~ContainsCI(b, STR_CN_FAILED)
                      /\ ~ContainsCI(b, STR_TRANSLATION_FAILED)
                      /\ \E c \in ReqContents : b = ReconstructPlain(c)

\* a request was answered 200 with a translation on its second attempt
C7_Witness ==
    \E w \in ReqWorkers :
        /\ wk[w].pc = "idle"
        /\ NonBlankRequest(w)
        /\ wk[w].retryCount = 1
        /\ wk[w].http = [status |-> 200, body |-> <<"o", "k">>]

\* C9: a request that stood before its first attempt, in the backoff, at
\* the start of an attempt or between two attempts when the stop flag was
\* set sends no POST from then on.
C9_NoPostAfterStop ==
    \A w \in ReqWorkers :
        gh.w[w].cancelled =>
            /\ wk[w].sent = Nil
            /\ wk[w].pc \notin InAttempt

\* a request in its backoff when the flag was set has been answered
C9_Witness ==
    \E w \in ReqWorkers :
        /\ gh.w[w].cancelled
        /\ wk[w].retryCount > 0
        /\ wk[w].pc = "idle"
        /\ wk[w].http # Nil

-----------------------------------------------------------------------------
(* The context store under two workers.                                    *)

CtxWorkers == {"w1", "w2"}
CtxTexts == {<<"H", "i">>}
\* the upstream answers with a translation ...
OkReplies == {[kind |-> "content", content |-> <<"o", "k">>]}
\* ... or with a translation or a transport error
CtxReplies == OkReplies \cup {[kind |-> "neterror", content |-> <<>>]}

\* Two workers of a listening server that serve requests of one client,
\* under configurations that differ in context_num, while the UI thread
\* reloads the configuration and clears the contexts.  The upstream answers
\* every attempt with a translation: an attempt that fails reads the
\* history as one that succeeds does, and touches the store no more.
InitCtx == \E c \in CapConfigs : InitWith(CtxWorkers, c, TRUE, FALSE)

NextCtx ==
    \/ \E w \in CtxWorkers :
          \/ Accept(w, CtxTexts, {"ip1"})
          \/ HandlerStart(w)
          \/ PtHead(w)
          \/ AttStart(w)
          \/ GetKey(w)
          \/ CtxRead(w)
          \/ ReplyFinished(w, OkReplies, MaxFails)
          \/ AfterWait(w)
          \/ Process(w)
          \/ PtRet(w)
          \/ HFin(w)
    \/ UpdateConfigBegin(CapConfigs)
    \/ UpdateConfigApply
    \/ ClearBegin
    \/ ClearEnd

SpecCtx == InitCtx /\ [][NextCtx]_vars

\* C1: the history of every client holds at most as many pairs as the cap
\* stored in its entry (ctx.max_len), which is the context_num of the
\* snapshot of the attempt that last read the entry, or the cap the entry
\* was created with when an append created it.
C1_ContextBound ==
    \A id \in DOMAIN m_contexts :
        Len(m_contexts[id].history) <= m_contexts[id].max_len

\* both workers have appended to a history of cap 1, the second of them
\* in an attempt whose snapshot has a larger context_num, and one pair is
\* kept
C1_Witness ==
    \E id \in DOMAIN m_contexts :
        /\ m_contexts[id].max_len = 1
        /\ Len(m_contexts[id].history) = 1
        /\ gh.touch[id] > 1
        /\ \A v \in CtxWorkers : gh.w[v].nAppend = 1
        /\ \E w \in CtxWorkers :
              /\ wk[w].pc = "pt_ret"
              /\ wk[w].attemptResult # <<>>

\* C1 as stated: the history of every client holds at most as many pairs as
\* the context_num of the snapshot of the attempt that last touched (read or
\* appended to) its entry.
C1_BoundByLastTouch ==
    \A id \in DOMAIN m_contexts :
        Len(m_contexts[id].history) <= gh.touch[id]

-----------------------------------------------------------------------------
(* The key rotator under two workers.                                      *)

KeyWorkers == {"w1", "w2"}

\* configurations whose credential strings hold one, two and three keys
KeyConfigs ==
    {[CfgA EXCEPT !.api_key = k, !.context_num = 0] :
        k \in {<<"a">>, <<"a", ",", "b">>,
               <<"a", ",", " ", "b", ",", "c">>}}

\* Two workers of a listening server whose attempts draw keys from the
\* pool, the keys getNextApiKey returns being recorded from the last
\* updateConfig on, while the UI thread reloads the configuration.
InitKeys == \E c \in KeyConfigs : InitWith(KeyWorkers, c, TRUE, TRUE)

NextKeys ==
    \/ \E w \in KeyWorkers :
          \/ Accept(w, CtxTexts, {"ip1"})
          \/ HandlerStart(w)
          \/ PtHead(w)
          \/ Backoff(w)
          \/ AttStart(w)
          \/ GetKey(w)
          \/ CtxRead(w)
          \/ ReplyFinished(w, CtxReplies, MaxFails)
          \/ AfterWait(w)
          \/ Process(w)
          \/ PtRet(w)
          \/ HFin(w)
    \/ UpdateConfigBegin(KeyConfigs)
    \/ UpdateConfigApply

SpecKeys == InitKeys /\ [][NextKeys]_vars

\* C5: the calls of getNextApiKey made since the last updateConfig, which
\* left the cursor at 0, return the keys of the pool in pool order, over and
\* over; hence the first m*k of them return each key of a pool of k keys
\* exactly m times.
C5_KeyRotation ==
    LET k == Len(m_apiKeys)
        n == Len(gh.keyLog)
    IN  /\ \A i \in 1..n : gh.keyLog[i] = m_apiKeys[((i - 1) % k) + 1]
        /\ \A m \in 1..n :
              m * k <= n =>
                 \A j \in 1..k :
                    Cardinality({i \in 1..(m * k) :
                                    gh.keyLog[i] = m_apiKeys[j]})
                       = m * Cardinality({p \in 1..k :
                                             m_apiKeys[p] = m_apiKeys[j]})

\* two rounds over a pool of two keys have been returned
C5_Witness ==
    /\ Len(m_apiKeys) = 2
    /\ Len(gh.keyLog) >= 4
    /\ gh.keyLog[3] = m_apiKeys[1]
    /\ gh.keyLog[4] = m_apiKeys[2]

-----------------------------------------------------------------------------
(* The life cycle under fair scheduling.                                   *)

LiveWorkers == {"w1"}
LiveConfigs == {CfgA, CfgB}

\* the steps worker w takes by itself once a request is queued: all but the
\* arrival of a request, the upstream's reply and the 40 s timeout
WorkerRuns(w) ==
    \/ HandlerStart(w)
    \/ PtHead(w)
    \/ Backoff(w)
    \/ AttStart(w)
    \/ GetKey(w)
    \/ CtxRead(w)
    \/ PollStop(w)
    \/ AfterWait(w)
    \/ Process(w)
    \/ PtRet(w)
    \/ HFin(w)

\* the steps by which the UI thread goes on inside a call it has begun
UiRuns ==
    \/ UpdateConfigApply
    \/ ClearEnd
    \/ StartLog
    \/ StopSvr
    \/ StopJoin

InitLive == \E c \in LiveConfigs : InitWith(LiveWorkers, c, FALSE, FALSE)

NextLive ==
    \/ \E w \in LiveWorkers :
          WorkerStep(w, CtxTexts, {"ip1"}, CtxReplies)
    \/ UiStep(LiveConfigs)
    \/ ServerStep

\* Every thread that can take a step of its own takes one: the pool's
\* workers (the 100 ms polls among their steps), the UI thread inside a
\* call, and the server thread.  Nothing is assumed of the calls the user
\* makes, of the requests that arrive, or of the upstream.
Fairness ==
    /\ \A w \in LiveWorkers : WF_vars(WorkerRuns(w))
    /\ WF_vars(UiRuns)
    /\ WF_vars(ServerStep)

FairSpec == InitLive /\ [][NextLive]_vars /\ Fairness

\* C8: a stopServer that found the server running goes on to stop the
\* listener, join the server thread and return, the server deleted.
C8_StopCompletes ==
    (ui.pc = "stop_svr")
        ~> (ui.pc = "idle" /\ m_svr = "null" /\ sv = "none" /\ ~m_running)

\* C10: a request that is inside performTranslation while the stop flag is
\* set eventually returns from it, whatever the upstream does.
C10_CancelResponsive ==
    \A w \in LiveWorkers :
        (m_stopRequested /\ wk[w].pc \in InPerformTranslation)
            ~> (wk[w].pc \notin InPerformTranslation)

\* a request returned empty-handed under the stop flag after one to three
\* failed attempts, its retries not exhausted
C10_Witness ==
    \E w \in LiveWorkers :
        /\ m_stopRequested
        /\ wk[w].pc = "h_fin"
        /\ wk[w].resultText = <<>>
        /\ wk[w].retryCount \in 1..(MAX_RETRY_COUNT - 2)
        /\ gh.w[w].nExhausted = 0

-----------------------------------------------------------------------------
(* The three locks, acquisition by acquisition.                            *)
(* Here a thread's position is the line of the lock operation it executes  *)
(* next, and mutex records which thread holds each lock.                   *)

LockWorkers == {"w1", "w2"}
LockThreads == {"ui", "sv"} \cup LockWorkers
LockNames == {"key", "config", "context"}

\* a lock operation: acquire or release lock, then go on at one of next
LockOp(op, lock, next) == [op |-> op, lock |-> lock, next |-> next]

\* the lock operations of the UI thread's calls: updateConfig (147-161),
\* getConfig (166-168), startServer (183-187), stopServer (211-213) and
\* clearAllContexts (591-601)
UiLocks ==
    [u147 |-> LockOp("acq", "key", {"u148"}),
     u148 |-> LockOp("acq", "config", {"u161c"}),
     u161c |-> LockOp("rel", "config", {"u161k"}),
     u161k |-> LockOp("rel", "key", {"idle"}),
     g166 |-> LockOp("acq", "config", {"g168"}),
     g168 |-> LockOp("rel", "config", {"idle"}),
     s183 |-> LockOp("acq", "config", {"s187"}),
     s187 |-> LockOp("rel", "config", {"idle"}),
     t211 |-> LockOp("acq", "config", {"t213"}),
     t213 |-> LockOp("rel", "config", {"idle"}),
     c591 |-> LockOp("acq", "context", {"c596"}),
     c596 |-> LockOp("acq", "config", {"c598"}),
     c598 |-> LockOp("rel", "config", {"c601"}),
     c601 |-> LockOp("rel", "context", {"idle"})]

\* where the calls of the UI thread begin
UiEntries == {"u147", "g166", "s183", "t211", "c591"}
\* positions inside updateConfig and inside clearAllContexts
InUpdateConfig == {"u148", "u161c", "u161k"}
InClearAllContexts == {"c596", "c598", "c601"}

\* the lock operations of runServerLoop (222-224, 275-277), then listen()
ServerLocks ==
    [v222 |-> LockOp("acq", "config", {"v224"}),
     v224 |-> LockOp("rel", "config", {"v275"}),
     v275 |-> LockOp("acq", "config", {"v277"}),
     v277 |-> LockOp("rel", "config", {"listening"})]

\* the lock operations of the handler (246-248) and of performTranslation
\* before its loop (290-292); the loop may end at its first stop check
HandlerLocks ==
    [h246 |-> LockOp("acq", "config", {"h248"}),
     h248 |-> LockOp("rel", "config", {"p290"}),
     p290 |-> LockOp("acq", "config", {"p292"}),
     p292 |-> LockOp("rel", "config", {"a348", "idle"})]

\* The mutant of AttemptLocks: the braces of lines 347 and 350 are missing
\* and the snapshot's lock is held until getNextApiKey has returned.
AttemptLocks_NoScope ==
    [a348 |-> LockOp("acq", "config", {"k578"}),
     k578 |-> LockOp("acq", "key", {"k583"}),
     k583 |-> LockOp("rel", "key", {"a350"}),
     a350 |-> LockOp("rel", "config", {"r401", "a348", "idle"}),
     r401 |-> LockOp("acq", "context", {"r410"}),
     r410 |-> LockOp("rel", "context", {"x553", "a348", "idle"}),
     x553 |-> LockOp("acq", "context", {"x556"}),
     x556 |-> LockOp("rel", "context", {"idle"})]

\* The lock operations of performSingleTranslationAttempt: the snapshot
\* (348-350), getNextApiKey (578-583), the history read (401-410) and the
\* append (553-556).  After the key and after the read the attempt may
\* fail, and the request retry or end.
AttemptLocks ==
    [a348 |-> LockOp("acq", "config", {"a350"}),
     a350 |-> LockOp("rel", "config", {"k578"}),
     k578 |-> LockOp("acq", "key", {"k583"}),
     k583 |-> LockOp("rel", "key", {"r401", "a348", "idle"}),
     r401 |-> LockOp("acq", "context", {"r410"}),
     r410 |-> LockOp("rel", "context", {"x553", "a348", "idle"}),
     x553 |-> LockOp("acq", "context", {"x556"}),
     x556 |-> LockOp("rel", "context", {"idle"})]

LockCode == UiLocks @@ ServerLocks @@ HandlerLocks @@ AttemptLocks

\* thread t executes the lock operation at position at and goes on at nxt:
\* std::lock_guard's constructor blocks until the lock is free, its
\* destructor frees it
LockDo(t, at, nxt) ==
    LET c == LockCode[at]
    IN  /\ nxt \in c.next
        /\ IF c.op = "acq"
           THEN /\ mutex[c.lock] = "free"
                /\ mutex' = [mutex EXCEPT ![c.lock] = t]
           ELSE /\ mutex[c.lock] = t
                /\ mutex' = [mutex EXCEPT ![c.lock] = "free"]

\* The UI thread begins a call.  startServer creates the server thread
\* before its lock (line 175); stopServer reaches its lock once the join of
\* the server thread has returned (lines 199-203).
LkUiCall ==
    /\ ui.pc = "idle"
    /\ \E e \in UiEntries :
          /\ ui' = [ui EXCEPT !.pc = e]
          /\ CASE e = "s183" -> sv' = IF sv = "none" THEN "v222" ELSE sv
               [] e = "t211" ->
                     /\ sv = "listening"
                     /\ \A w \in LockWorkers : wk[w].pc = "idle"
                     /\ sv' = "none"
               [] OTHER -> sv' = sv
    /\ UNCHANGED <<m_config, m_apiKeys, m_currentKeyIndex, m_contexts,
                   m_stopRequested, m_running, m_svr, mutex, wk, gh>>

\* the UI thread executes its next lock operation
LkUi ==
    /\ ui.pc \in DOMAIN UiLocks
    /\ \E nxt \in UiEntries \cup DOMAIN UiLocks \cup {"idle"} :
          /\ LockDo("ui", ui.pc, nxt)
          /\ ui' = [ui EXCEPT !.pc = nxt]
    /\ UNCHANGED <<m_config, m_apiKeys, m_currentKeyIndex, m_contexts,
                   m_stopRequested, m_running, m_svr, sv, wk, gh>>

\* the server thread executes its next lock operation
LkSv ==
    /\ sv \in DOMAIN ServerLocks
    /\ \E nxt \in DOMAIN ServerLocks \cup {"listening"} :
          /\ LockDo("sv", sv, nxt)
          /\ sv' = nxt
    /\ UNCHANGED <<m_config, m_apiKeys, m_currentKeyIndex, m_contexts,
                   m_stopRequested, m_running, m_svr, ui, wk, gh>>

\* a worker of the pool takes up a request with a text
LkAccept(w) ==
    /\ wk[w].pc = "idle"
    /\ sv = "listening"
    /\ SetWk(w, [wk[w] EXCEPT !.pc = "h246"])
    /\ UNCHANGED <<m_config, m_apiKeys, m_currentKeyIndex, m_contexts,
                   m_stopRequested, m_running, m_svr, mutex, ui, sv, gh>>

\* worker w executes its next lock operation
LkWk(w) ==
    /\ wk[w].pc \in DOMAIN HandlerLocks \cup DOMAIN AttemptLocks
    /\ \E nxt \in DOMAIN HandlerLocks \cup DOMAIN AttemptLocks \cup {"idle"} :
          /\ LockDo(w, wk[w].pc, nxt)
          /\ SetWk(w, [wk[w] EXCEPT !.pc = nxt])
    /\ UNCHANGED <<m_config, m_apiKeys, m_currentKeyIndex, m_contexts,
                   m_stopRequested, m_running, m_svr, ui, sv, gh>>

InitLocks == InitWith(LockWorkers, CfgA, FALSE, FALSE)

NextLocks ==
    \/ LkUiCall
    \/ LkUi
    \/ LkSv
    \/ \E w \in LockWorkers : LkAccept(w) \/ LkWk(w)

SpecLocks == InitLocks /\ [][NextLocks]_vars

\* the locks thread t holds
HeldBy(t) == {l \in LockNames : mutex[l] = t}

\* C11: a thread holds two locks at once only inside updateConfig, which
\* holds the credential lock whenever it holds the config lock, or inside
\* clearAllContexts, which holds the context lock whenever it holds the
\* config lock; no thread ever holds all three.
C11_LockCoAcquisition ==
    \A t \in LockThreads :
        /\ Cardinality(HeldBy(t)) >= 2 =>
              /\ t = "ui"
              /\ \/ ui.pc \in InUpdateConfig /\ HeldBy(t) = {"key", "config"}
                 \/ ui.pc \in InClearAllContexts
                       /\ HeldBy(t) = {"context", "config"}
        /\ (t = "ui" /\ ui.pc \in InUpdateConfig /\ "config" \in HeldBy(t))
              => "key" \in HeldBy(t)
        /\ (t = "ui" /\ ui.pc \in InClearAllContexts
               /\ "config" \in HeldBy(t))
              => "context" \in HeldBy(t)

\* clearAllContexts holds the context lock and the config lock while a
\* worker holds the credential lock
C11_Witness ==
    /\ HeldBy("ui") = {"context", "config"}
    /\ ui.pc = "c598"
    /\ \E w \in LockWorkers : HeldBy(w) = {"key"}

\* C11 as stated: a thread holds two locks at once only inside
\* updateConfig, the credential lock taken first and the config lock second.
C11_OnlyUpdateConfigHoldsTwo ==
    \A t \in LockThreads :
        /\ Cardinality(HeldBy(t)) >= 2 =>
              /\ t = "ui"
              /\ ui.pc \in InUpdateConfig
              /\ HeldBy(t) = {"key", "config"}
        /\ (t = "ui" /\ ui.pc \in InUpdateConfig /\ "config" \in HeldBy(t))
              => "key" \in HeldBy(t)

-----------------------------------------------------------------------------
(* The credential pool over all short credential strings.                  *)

\* longest credential string
MaxKeyLen == 3

\* the strings over alphabet of length n, and of length at most n
RECURSIVE StringsOfLen(_, _)
StringsOfLen(alphabet, n) ==
    IF n = 0 THEN {<<>>}
    ELSE {Append(s, c) : s \in StringsOfLen(alphabet, n - 1), c \in alphabet}
StringsUpTo(alphabet, n) == UNION {StringsOfLen(alphabet, k) : k \in 0..n}

\* configurations whose credential string is any string of a letter, commas
\* and blanks
PoolConfigs ==
    {[CfgA EXCEPT !.api_key = k, !.context_num = 0] :
        k \in StringsUpTo({"a", ",", " "}, MaxKeyLen)}

\* The server after some calls of getNextApiKey, the cursor anywhere in the
\* pool, while the UI thread reloads configurations with every short
\* credential string.
InitPool ==
    \E c \in PoolConfigs :
        /\ m_config = c
        /\ m_apiKeys = ParseKeys(c)
        /\ m_currentKeyIndex \in
               {i \in 0..MaxKeyLen : i = 0 \/ i < Len(ParseKeys(c))}
        /\ m_contexts = <<>>
        /\ m_stopRequested = FALSE
        /\ m_running = FALSE
        /\ m_svr = "null"
        /\ mutex = [key |-> "free", config |-> "free", context |-> "free"]
        /\ ui = [pc |-> "idle", arg |-> Nil]
        /\ sv = "none"
        /\ wk = [w \in {"w1"} |-> FreshWorker]
        /\ gh = [w |-> [w \in {"w1"} |-> FreshObs], touch |-> <<>>,
                 keyLog |-> <<>>, logKeys |-> FALSE]

NextPool ==
    \/ UpdateConfigBegin(PoolConfigs)
    \/ UpdateConfigApply

SpecPool == InitPool /\ [][NextPool]_vars

\* the credential string split on ',', each part trimmed, the empty ones
\* dropped
TrimmedNonEmptyParts(s) ==
    LET parts == splitSkipEmpty(s)
    IN  SelectSeq([i \in 1..Len(parts) |-> trimmed(parts[i])],
                  LAMBDA k : k # <<>>)

\* C12: when updateConfig returns, every entry of the pool is a non-empty
\* trimmed string, the pool is the sequence of the non-empty trimmed parts
\* of the credential string in their order, and the cursor is 0.
C12_PoolContents ==
    [][(ui.pc = "upd" /\ ui'.pc = "idle") =>
          /\ \A i \in 1..Len(m_apiKeys') :
                /\ m_apiKeys'[i] # <<>>
                /\ trimmed(m_apiKeys'[i]) = m_apiKeys'[i]
          /\ m_apiKeys' = TrimmedNonEmptyParts(m_config'.api_key)
          /\ m_currentKeyIndex' = 0]_vars

-----------------------------------------------------------------------------
(* The placeholder codec, there and back.                                  *)

IsDigit(c) == \E i \in 1..Len(Digits) : Digits[i] = c

\* the number of white-space characters from position p of s on:  \s*
RECURSIVE SpaceRun(_, _)
SpaceRun(s, p) ==
    IF p <= Len(s) /\ IsSpace(s[p]) THEN 1 + SpaceRun(s, p + 1) ELSE 0

\* the number of digits from position p of s on:  \d+
RECURSIVE DigitRun(_, _)
DigitRun(s, p) ==
    IF p <= Len(s) /\ IsDigit(s[p]) THEN 1 + DigitRun(s, p + 1) ELSE 0

\* The match of the thaw regex \s*\[T_(\d+)\]\s* that starts at position p
\* of s: its length (0 when none starts there) and the digits captured.
ThawMatch(s, p) ==
    LET lead == SpaceRun(s, p)
        q == p + lead
        nd == DigitRun(s, q + 3)
        r == q + 3 + nd
    IN  IF /\ At(s, q) = "[" /\ At(s, q + 1) = "T" /\ At(s, q + 2) = "_"
           /\ nd > 0 /\ At(s, r) = "]"
        THEN [len |-> (r + 1 + SpaceRun(s, r + 1)) - p,
              digits |-> SubSeq(s, q + 3, r - 1)]
        ELSE [len |-> 0, digits |-> <<>>]

\* context.map.contains(key) ? context.map[key] : key  (lines 112-120), the
\* map being a sequence whose (n+1)-th element is the fragment of "[T_n]"
ThawLookup(digits, map) ==
    LET hits == {n \in 0..(Len(map) - 1) : NumStr(n) = digits}
    IN  IF hits # {} THEN map[(CHOOSE n \in hits : TRUE) + 1]
        ELSE <<"[", "T", "_">> \o digits \o <<"]">>

\* the loop of thawEscapesLocal from position p on (lines 100-125)
RECURSIVE ThawFrom(_, _, _, _)
ThawFrom(s, p, out, map) ==
    IF p > Len(s) THEN out
    ELSE LET m == ThawMatch(s, p)
         IN  IF m.len = 0
             THEN ThawFrom(s, p + 1, Append(out, s[p]), map)
             ELSE ThawFrom(s, p + m.len, out \o ThawLookup(m.digits, map),
                           map)

thawEscapesLocal(input, map) == ThawFrom(input, 1, <<>>, map)

\* most fragments an input is made of
MaxFragments == 3

\* what inputs are made of: a letter, a blank, a tag, a literal token, a
\* line feed, a brace pair
CodecFragments ==
    {<<"a">>, <<" ">>, <<"<", "b", ">">>, <<"[", "T", "_", "0", "]">>,
     <<"\n">>, <<"{", "{", "x", "}", "}">>}

\* the concatenations of n fragments, and of at most n
RECURSIVE ConcatsOfLen(_, _)
ConcatsOfLen(frags, n) ==
    IF n = 0 THEN {<<>>}
    ELSE {s \o f : s \in ConcatsOfLen(frags, n - 1), f \in frags}
ConcatsUpTo(frags, n) == UNION {ConcatsOfLen(frags, k) : k \in 0..n}

CodecInputs == ConcatsUpTo(CodecFragments, MaxFragments)

\* A worker holds an input; it freezes it, then thaws what it froze.
InitCodec ==
    /\ m_config = CfgA
    /\ m_apiKeys = ParseKeys(CfgA)
    /\ m_currentKeyIndex = 0
    /\ m_contexts = <<>>
    /\ m_stopRequested = FALSE
    /\ m_running = TRUE
    /\ m_svr = "listening"
    /\ mutex = [key |-> "free", config |-> "free", context |-> "free"]
    /\ ui = [pc |-> "idle", arg |-> Nil]
    /\ sv = "listening"
    /\ \E s \in CodecInputs :
          wk = [w \in {"w1"} |-> [FreshWorker EXCEPT !.pc = "codec",
                                                      !.text = s]]
    /\ gh = [w |-> [w \in {"w1"} |-> FreshObs], touch |-> <<>>,
             keyLog |-> <<>>, logKeys |-> FALSE]

\* escapeCtx and the frozen text (lines 359-361)
CodecFreeze(w) ==
    /\ wk[w].pc = "codec"
    /\ SetWk(w, [wk[w] EXCEPT !.pc = "frozen",
                              !.sent = freezeEscapesLocal(wk[w].text)])
    /\ UNCHANGED <<m_config, m_apiKeys, m_currentKeyIndex, m_contexts,
                   m_stopRequested, m_running, m_svr, mutex, ui, sv, gh>>

\* thawEscapesLocal on the frozen text with its escape map (line 544)
CodecThaw(w) ==
    /\ wk[w].pc = "frozen"
    /\ SetWk(w, [wk[w] EXCEPT
                    !.pc = "thawed",
                    !.resultText =
                        thawEscapesLocal(wk[w].sent.text, wk[w].sent.map)])
    /\ UNCHANGED <<m_config, m_apiKeys, m_currentKeyIndex, m_contexts,
                   m_stopRequested, m_running, m_svr, mutex, ui, sv, gh>>

NextCodec == CodecFreeze("w1") \/ CodecThaw("w1")

SpecCodec == InitCodec /\ [][NextCodec]_vars

\* C13: thawing what was frozen gives the input back.
C13_RoundTrip ==
    wk["w1"].pc = "thawed" => wk["w1"].resultText = wk["w1"].text

-----------------------------------------------------------------------------
(* The response reconstructor.                                             *)

TAG_THINK_OPEN == <<"<","t","h","i","n","k",">">>
TAG_THINK_CLOSE == <<"<","/","t","h","i","n","k",">">>
TAG_TM_OPEN == <<"<","t","m",">">>
TAG_TM_CLOSE == <<"<","/","t","m",">">>
TAG_TL_OPEN == <<"<","t","l",">">>
TAG_TL_CLOSE == <<"<","/","t","l",">">>

\* the first position at or after from where pat occurs in s, 0 when none
Find(s, pat, from) ==
    LET hits == {p \in from..(Len(s) - Len(pat) + 1) :
                    SubSeq(s, p, p + Len(pat) - 1) = pat}
    IN  IF hits = {} THEN 0
        ELSE CHOOSE p \in hits : \A q \in hits : p <= q

\* cleanContent.remove(<think>.*?</think>), the dot matching everything: each
\* <think> with a </think> after it is cut up to the nearest </think>
RECURSIVE RemoveThink(_)
RemoveThink(s) ==
    LET o == Find(s, TAG_THINK_OPEN, 1)
        c == IF o = 0 THEN 0 ELSE Find(s, TAG_THINK_CLOSE, o + 7)
    IN  IF c = 0 THEN s
        ELSE SubSeq(s, 1, o - 1) \o RemoveThink(SubSeq(s, c + 8, Len(s)))

\* k.contains(tokenRegex), tokenRegex \[T_\d+\]
ContainsToken(s) ==
    \E p \in 1..Len(s) :
        /\ StartsWith(SubSeq(s, p, Len(s)), <<"[", "T", "_">>)
        /\ DigitRun(s, p + 3) > 0
        /\ At(s, p + 3 + DigitRun(s, p + 3)) = "]"

\* k.contains(termCodeRegex), termCodeRegex Z[A-Z]{2}Z
ContainsTermCode(s) ==
    \E p \in 1..(Len(s) - 3) :
        /\ s[p] = "Z"
        /\ \E i \in 1..26 : Upper[i] = s[p + 1]
        /\ \E i \in 1..26 : Upper[i] = s[p + 2]
        /\ s[p + 3] = "Z"

\* isValidTerm of the term harvest
isValidTerm(k, v) ==
    /\ ~(k = <<>> \/ v = <<>>)
    /\ ~(ContainsToken(k) \/ ContainsToken(v))
    /\ ~(ContainsTermCode(k) \/ ContainsTermCode(v))

\* The mutant of AnnounceTerm: the test of the processed text left out.
AnnounceTerm_Unchecked(k, v, processedText) == isValidTerm(k, v)

\* whether the harvest calls addNewTerm(k, v)
AnnounceTerm(k, v, processedText) ==
    isValidTerm(k, v) /\ ContainsCI(processedText, k)

\* The mutant of SpanValue: the span of a term that is not valid is deleted.
SpanValue_ValidOnly(k, v) == IF isValidTerm(k, v) THEN v ELSE <<>>

\* what the harvest puts in the place of a span: the translated side
SpanValue(k, v) == v

\* The match loop of reTm, <tm>\s*(.*?)\s*=\s*(.*?)\s*</tm> with the dot
\* matching everything, from lastPos on: a match starts at the first <tm>,
\* its key ends at the first '=' after it and its value at the first </tm>
\* after that '='; k and v are the captures trimmed.  spans records each
\* match: where it starts and ends in cleanContent, k, v, and whether
\* addNewTerm(k, v) was called.
RECURSIVE HarvestFrom(_, _, _, _, _)
HarvestFrom(cleanContent, lastPos, buffer, spans, processedText) ==
    LET o == Find(cleanContent, TAG_TM_OPEN, lastPos)
        e == IF o = 0 THEN 0 ELSE Find(cleanContent, <<"=">>, o + 4)
        c == IF e = 0 THEN 0 ELSE Find(cleanContent, TAG_TM_CLOSE, e + 1)
    IN  IF c = 0
        THEN [text |-> buffer \o SubSeq(cleanContent, lastPos,
                                        Len(cleanContent)),
              spans |-> spans]
        ELSE LET k == trimmed(SubSeq(cleanContent, o + 4, e - 1))
                 v == trimmed(SubSeq(cleanContent, e + 1, c - 1))
             IN  HarvestFrom(cleanContent, c + 5,
                     buffer \o SubSeq(cleanContent, lastPos, o - 1)
                            \o SpanValue(k, v),
                     Append(spans,
                            [from |-> o, to |-> c + 4, k |-> k, v |-> v,
                             added |-> AnnounceTerm(k, v, processedText)]),
                     processedText)

\* the term harvest, run when extraction was requested
Harvest(cleanContent, performExtraction, processedText) ==
    IF performExtraction
    THEN HarvestFrom(cleanContent, 1, <<>>, <<>>, processedText)
    ELSE [text |-> cleanContent, spans |-> <<>>]

\* reTl, <tl>(.*?)</tl>: the capture of the first match trimmed, the whole
\* text trimmed when there is no match
ExtractTl(s) ==
    LET o == Find(s, TAG_TL_OPEN, 1)
        c == IF o = 0 THEN 0 ELSE Find(s, TAG_TL_CLOSE, o + 4)
    IN  IF c = 0 THEN trimmed(s) ELSE trimmed(SubSeq(s, o + 4, c - 1))

\* QString::remove(pat, Qt::CaseInsensitive): every occurrence cut, left to
\* right
RECURSIVE RemoveAllCI(_, _)
RemoveAllCI(s, pat) ==
    LET o == Find(Fold(s), Fold(pat), 1)
    IN  IF o = 0 THEN s
        ELSE SubSeq(s, 1, o - 1)
                 \o RemoveAllCI(SubSeq(s, o + Len(pat), Len(s)), pat)

\* Lines 480-544: the reply's content to the thawed result.  clean is the
\* content without <think> spans, spans the matches of the harvest,
\* reconstructed the content after the harvest, extracted the text the <tl>
\* match leaves, result the text after the residual tags are cut and the
\* placeholders thawed.
Reconstruct(content, performExtraction, processedText, escapeCtx) ==
    LET clean == RemoveThink(content)
        h == Harvest(clean, performExtraction, processedText)
        extracted == ExtractTl(h.text)
        stripped == RemoveAllCI(RemoveAllCI(extracted, TAG_TL_OPEN),
                                TAG_TL_CLOSE)
    IN  [clean |-> clean, spans |-> h.spans, reconstructed |-> h.text,
         extracted |-> extracted,
         result |-> thawEscapesLocal(stripped, escapeCtx)]

\* Bound: the number of fragments a reply's content is made of.
MaxReplyFragments == 3

\* The fragments of a reply's content: plain text, the tags of the
\* translation envelope, a reasoning span, and term spans: a valid one whose key
\* is in the request's text in another case, the same with blanks, one with
\* no key, one with no value, one with a placeholder, one with a term code,
\* one whose key is in the pre-regex's output alone.
ReplyFragments ==
    { <<"X">>, <<" ">>, STR_ERROR,
      TAG_TL_OPEN, TAG_TL_CLOSE,
      TAG_THINK_OPEN \o <<"z">> \o TAG_THINK_CLOSE,
      TAG_TM_OPEN \o <<"l","i","=","Y">> \o TAG_TM_CLOSE,
      TAG_TM_OPEN \o <<" ","l","i"," ","="," ","Y"," ">> \o TAG_TM_CLOSE,
      TAG_TM_OPEN \o <<"=","Y">> \o TAG_TM_CLOSE,
      TAG_TM_OPEN \o <<"l","i","=">> \o TAG_TM_CLOSE,
      TAG_TM_OPEN \o <<"[","T","_","0","]","=","Y">> \o TAG_TM_CLOSE,
      TAG_TM_OPEN \o <<"l","i","=","Z","A","B","Z">> \o TAG_TM_CLOSE,
      TAG_TM_OPEN \o <<"n","o","=","Y">> \o TAG_TM_CLOSE }

RECURSIVE ReplyConcats(_)
ReplyConcats(n) ==
    IF n = 0 THEN { <<>> }
    ELSE {a \o b : a \in ReplyConcats(n - 1), b \in ReplyFragments}

ReplyContentsUpTo(n) == UNION {ReplyConcats(i) : i \in 0..n}

\* the requests of the reconstructor's runs: a text longer than 5 that holds
\* a tag, and a short one
ReconTexts == { <<"L","i"," ","<","b",">">>, <<"L","i">> }

\* the configurations of the reconstructor's runs: glossary off and on
ReconConfigs == { [CfgA EXCEPT !.api_key = <<"k">>], 
                  [CfgA EXCEPT !.api_key = <<"k">>, !.enable_glossary = TRUE] }

\* RegexManager::processPre and processPost apply the user's substitutions,
\* text to text.  RegexManager is not among the sources; its rules are either
\* none, and the text is kept, or one pair that rewrites it.
RegexRules == {"none", "some"}
processPre(rules, t) == IF rules = "none" THEN t ELSE <<"n","o"," ">> \o t
processPost(rules, t) == IF rules = "none" THEN t ELSE t \o <<"!">>

\* The runs of the reconstructor: request text, configuration, rules of the
\* regex provider.  With the glossary off the regex provider is not called
\* and no extraction is requested, whatever the text.
ReconRuns ==
    {r \in [text : ReconTexts, cfg : ReconConfigs, rules : RegexRules] :
        /\ ~r.cfg.enable_glossary => r.rules = "none" /\ Len(r.text) > 5
        /\ Len(r.text) <= 5 => r.rules = "none"}

\* An attempt that holds its snapshot and its key and stands before the
\* freeze (line 359).
InitRecon ==
  \E run \in ReconRuns :
    /\ m_config = run.cfg
    /\ m_apiKeys = <<<<"k">>>>
    /\ m_currentKeyIndex = 0
    /\ m_contexts = <<>>
    /\ m_stopRequested = FALSE
    /\ m_running = TRUE
    /\ m_svr = "listening"
    /\ mutex = [key |-> "free", config |-> "free", context |-> "free"]
    /\ ui = [pc |-> "idle", arg |-> Nil]
    /\ sv = "listening"
    /\ wk = [w \in {"w1"} |-> [FreshWorker EXCEPT !.pc = "freeze",
                                                   !.text = run.text,
                                                   !.clientIP = "ip1",
                                                   !.cfg = run.cfg,
                                                   !.apiKey = <<"k">>]]
    /\ gh = [w |-> [w \in {"w1"} |-> FreshObs], touch |-> <<>>,
             keyLog |-> <<>>, logKeys |-> FALSE, rules |-> run.rules,
             recon |-> Nil]

\* Lines 359-410: the freeze, the pre-regex when the glossary is on, whether
\* extraction is requested, and the history read, which creates the
\* requester's entry.
ReconPrepare(w) ==
    /\ wk[w].pc = "freeze"
    /\ LET f == freezeEscapesLocal(wk[w].text)
           cfg == wk[w].cfg
           id == generateClientId(wk[w].clientIP)
           processedText == IF cfg.enable_glossary
                            THEN processPre(gh.rules, f.text) ELSE f.text
       IN     /\ SetWk(w, [wk[w] EXCEPT
                     !.pc = "wait",
                     !.sent = [text |-> processedText, map |-> f.map,
                               extraction |-> (cfg.enable_glossary
                                               /\ Len(wk[w].text) > 5),
                               user |-> cfg.pre_prompt \o processedText]])
              /\ m_contexts' =
                     (id :> ReadContext(EntryOf(m_contexts, id, 0),
                                        cfg.context_num)) @@ m_contexts
    /\ UNCHANGED <<m_config, m_apiKeys, m_currentKeyIndex, m_stopRequested,
                   m_running, m_svr, mutex, ui, sv, gh>>

\* Lines 426-479: the reply of the upstream comes with a content.
ReconReply(w) ==
    /\ wk[w].pc = "wait"
    /\ \E c \in ReplyContentsUpTo(MaxReplyFragments) :
          SetWk(w, [wk[w] EXCEPT !.pc = "parse",
                                 !.reply = [kind |-> "content",
                                            content |-> c]])
    /\ UNCHANGED <<m_config, m_apiKeys, m_currentKeyIndex, m_contexts,
                   m_stopRequested, m_running, m_svr, mutex, ui, sv, gh>>

\* Lines 480-548: the reconstruction, in which addNewTerm is called, and the
\* post-regex when the glossary is on.
ReconParse(w) ==
    /\ wk[w].pc = "parse"
    /\ LET r == Reconstruct(wk[w].reply.content, wk[w].sent.extraction,
                            wk[w].sent.text, wk[w].sent.map)
           resultText == IF wk[w].cfg.enable_glossary
                         THEN processPost(gh.rules, r.result) ELSE r.result
       IN  /\ SetWk(w, [wk[w] EXCEPT !.pc = "validate",
                                        !.resultText = resultText])
           /\ gh' = [gh EXCEPT !.recon = r]
    /\ UNCHANGED <<m_config, m_apiKeys, m_currentKeyIndex, m_contexts,
                   m_stopRequested, m_running, m_svr, mutex, ui, sv>>

\* Lines 552-574: the validation; a valid result is appended to the
\* requester's history and returned, any other gives the empty result.
ReconValidate(w) ==
    /\ wk[w].pc = "validate"
    /\ LET id == generateClientId(wk[w].clientIP)
           resultText == wk[w].resultText
       IN  IF isValidTranslationResult(resultText)
           THEN /\ m_contexts' =
                       [m_contexts EXCEPT
                           ![id] = PushPair(@, <<wk[w].sent.user,
                                                 resultText>>)]
                /\ SetWk(w, [wk[w] EXCEPT !.pc = "returned",
                                          !.attemptResult = resultText])
                /\ gh' = [gh EXCEPT !.w[w].nAppend = @ + 1]
           ELSE /\ SetWk(w, [wk[w] EXCEPT !.pc = "returned",
                                          !.resultText = <<>>,
                                          !.attemptResult = <<>>])
                /\ UNCHANGED <<m_contexts, gh>>
    /\ UNCHANGED <<m_config, m_apiKeys, m_currentKeyIndex, m_stopRequested,
                   m_running, m_svr, mutex, ui, sv>>

NextRecon ==
    \/ ReconPrepare("w1")
    \/ ReconReply("w1")
    \/ ReconParse("w1")
    \/ ReconValidate("w1")

SpecRecon == InitRecon /\ [][NextRecon]_vars

\* a substring of s is a placeholder: "[T_", digits, "]"
HoldsPlaceholder(s) ==
    \E i \in 1..Len(s) : \E j \in i..Len(s) :
        LET t == SubSeq(s, i, j)
        IN  /\ Len(t) >= 5
            /\ SubSeq(t, 1, 3) = <<"[", "T", "_">>
            /\ t[Len(t)] = "]"
            /\ \A d \in 4..(Len(t) - 1) : IsDigit(t[d])

\* a substring of s is a term code: Z, two capitals, Z
HoldsTermCode(s) ==
    \E i \in 1..(Len(s) - 3) :
        /\ s[i] = "Z" /\ s[i + 3] = "Z"
        /\ {s[i + 1], s[i + 2]} \subseteq {Upper[n] : n \in 1..26}

\* k occurs in t, case not regarded
OccursFolded(t, k) ==
    \E i \in 1..(Len(t) - Len(k) + 1) :
        \A j \in 1..Len(k) : FoldChar(t[i + j - 1]) = FoldChar(k[j])

\* C14: addNewTerm(k, v) is called for a <tm>k=v</tm> span exactly when k and
\* v are non-empty, neither holds a [T_n] placeholder, neither holds a
\* Z[A-Z]{2}Z term code, and k occurs case-insensitively in the attempt's
\* processed text; for every other span it is not called.
C14_TermGuard ==
    gh.recon # Nil =>
        \A i \in 1..Len(gh.recon.spans) :
            LET s == gh.recon.spans[i]
            IN  s.added <=>
                    /\ Len(s.k) > 0 /\ Len(s.v) > 0
                    /\ ~HoldsPlaceholder(s.k) /\ ~HoldsPlaceholder(s.v)
                    /\ ~HoldsTermCode(s.k) /\ ~HoldsTermCode(s.v)
                    /\ OccursFolded(wk["w1"].sent.text, s.k)

\* a reconstruction with a span announced, and one not announced because its
\* key is not in the processed text
C14_Witness ==
    /\ gh.recon # Nil
    /\ Len(gh.recon.spans) = 2
    /\ gh.recon.spans[1].added
    /\ ~gh.recon.spans[2].added
    /\ isValidTerm(gh.recon.spans[2].k, gh.recon.spans[2].v)

\* s with each of the spans, taken last to first, replaced by its v
RECURSIVE WithSpansReplaced(_, _)
WithSpansReplaced(s, spans) ==
    IF spans = <<>> THEN s
    ELSE LET n == Len(spans)
             last == spans[n]
         IN  WithSpansReplaced(
                 SubSeq(s, 1, last.from - 1) \o last.v
                     \o SubSeq(s, last.to + 1, Len(s)),
                 SubSeq(spans, 1, n - 1))

\* the <tl>...</tl> spans of s: where the content starts and where it ends,
\* no </tl> inside
TlSpans(s) ==
    {oc \in (1..Len(s)) \X (0..Len(s)) :
        /\ oc[1] >= 5 /\ oc[2] >= oc[1] - 1 /\ oc[2] + 5 <= Len(s)
        /\ SubSeq(s, oc[1] - 4, oc[1] - 1) = TAG_TL_OPEN
        /\ SubSeq(s, oc[2] + 1, oc[2] + 5) = TAG_TL_CLOSE
        /\ \A c \in oc[1]..oc[2] : SubSeq(s, c, c + 4) # TAG_TL_CLOSE}

\* the content of the first <tl>...</tl> span of s
FirstTlContent(s) ==
    LET first == CHOOSE oc \in TlSpans(s) :
                     \A other \in TlSpans(s) : oc[1] <= other[1]
    IN  SubSeq(s, first[1], first[2])

\* C15: when extraction was requested, the reconstructed string is the
\* content with every <tm>k=v</tm> span, valid or not, replaced by v, and the
\* text extracted from it is the trimmed content of its first <tl>...</tl>
\* span if there is one, the whole reconstructed string trimmed otherwise.
C15_Reconstruction ==
    (gh.recon # Nil /\ wk["w1"].sent.extraction) =>
        /\ gh.recon.reconstructed =
               WithSpansReplaced(gh.recon.clean, gh.recon.spans)
        /\ gh.recon.extracted =
               IF TlSpans(gh.recon.reconstructed) # {}
               THEN trimmed(FirstTlContent(gh.recon.reconstructed))
               ELSE trimmed(gh.recon.reconstructed)

\* a term span that is not valid, inlined in the translation envelope, gives
\* its v as the translation
C15_Witness ==
    /\ gh.recon # Nil /\ wk["w1"].sent.extraction
    /\ Len(gh.recon.spans) = 1
    /\ ~isValidTerm(gh.recon.spans[1].k, gh.recon.spans[1].v)
    /\ gh.recon.spans[1].v # <<>>
    /\ gh.recon.clean # gh.recon.reconstructed
    /\ TlSpans(gh.recon.reconstructed) # {}
    /\ gh.recon.extracted = gh.recon.spans[1].v

\* C20: addNewTerm is called only within an attempt whose final result
\* passes validation: an attempt that has returned and announced a term has
\* returned a valid result and appended it.
C20_GlossaryOnlyOnSuccess ==
    (/\ wk["w1"].pc = "returned"
     /\ \E i \in 1..Len(gh.recon.spans) : gh.recon.spans[i].added)
        => /\ isValidTranslationResult(wk["w1"].attemptResult)
           /\ gh.w["w1"].nAppend = 1

-----------------------------------------------------------------------------
(* The events of a request.                                                *)

C17_RetryEvents ==
    \A w \in ReqWorkers :
        /\ wk[w].pc \in InAttempt \cup {"backoff", "pt_ret"} =>
               gh.w[w].nRetry = wk[w].retryCount
        /\ gh.w[w].nRetry <= wk[w].retryCount
        /\ gh.w[w].nRetrySuccess <= 1
        /\ gh.w[w].nRetrySuccess = 1 =>
               /\ wk[w].retryCount > 0
               /\ gh.w[w].nRetry >= 1
               /\ gh.w[w].nAttempts = wk[w].retryCount + 1
               /\ wk[w].pc \in {"h_fin", "idle"}
               /\ isValidTranslationResult(wk[w].resultText)
        /\ ~(gh.w[w].nRetrySuccess > 0 /\ gh.w[w].nExhausted > 0)

\* a request answered after a retry succeeded
C17_Witness ==
    \E w \in ReqWorkers :
        /\ wk[w].pc = "idle" /\ wk[w].http # Nil
        /\ gh.w[w].nRetry >= 1
        /\ gh.w[w].nRetrySuccess = 1
        /\ gh.w[w].nExhausted = 0

-----------------------------------------------------------------------------
(* The empty credential pool.                                              *)

\* C18: with an empty credential pool the attempt ends at the key check: it
\* returns the empty result, has sent no request upstream, holds no key, and
\* leaves the context store and the cursor as they were.
C18_EmptyPool ==
    [][\A w \in ReqWorkers :
          (wk[w].pc = "getkey" /\ wk'[w].pc # "getkey" /\ m_apiKeys = <<>>)
              => /\ wk'[w].pc = "pt_ret"
                 /\ wk'[w].attemptResult = <<>>
                 /\ wk'[w].apiKey = <<>>
                 /\ wk[w].sent = Nil /\ wk'[w].sent = Nil
                 /\ wk'[w].reply = Nil
                 /\ m_contexts' = m_contexts
                 /\ m_currentKeyIndex' = m_currentKeyIndex
                 /\ gh'.w[w].nAppend = gh.w[w].nAppend]_vars

\* a request whose attempts all met the empty pool is answered 500, and the
\* context store holds no entry
C18_Witness ==
    \E w \in ReqWorkers :
        /\ m_apiKeys = <<>>
        /\ wk[w].pc = "idle" /\ wk[w].http # Nil
        /\ wk[w].http.status = 500
        /\ gh.w[w].nAttempts = MAX_RETRY_COUNT
        /\ m_contexts = <<>>

-----------------------------------------------------------------------------
(* The order of the context store's pairs.                                 *)

\* Bound: the pairs recorded as appended since the store was last cleared.
MaxPairLog == 3

FifoWorkers == {"w1"}
\* the upstream answers with one of two translations
FifoReplies == {[kind |-> "content", content |-> <<"o", "k">>],
                [kind |-> "content", content |-> <<"n", "o">>]}

\* A worker of a listening server that serves the requests of one client,
\* one after the other, under configurations that differ in context_num,
\* the pairs appended being recorded, while the UI thread reloads the
\* configuration and clears the contexts.
InitFifo ==
    /\ m_config \in CapConfigs
    /\ m_apiKeys = ParseKeys(m_config)
    /\ m_currentKeyIndex = 0
    /\ m_contexts = <<>>
    /\ m_stopRequested = FALSE
    /\ m_running = TRUE
    /\ m_svr = "listening"
    /\ mutex = [key |-> "free", config |-> "free", context |-> "free"]
    /\ ui = [pc |-> "idle", arg |-> Nil]
    /\ sv = "listening"
    /\ wk = [w \in FifoWorkers |-> FreshWorker]
    /\ gh = [w |-> [w \in FifoWorkers |-> FreshObs], touch |-> <<>>,
             keyLog |-> <<>>, logKeys |-> FALSE, appended |-> <<>>]

NextFifo ==
    \/ \E w \in FifoWorkers :
          \/ Accept(w, CtxTexts, {"ip1"})
          \/ HandlerStart(w)
          \/ PtHead(w)
          \/ AttStart(w)
          \/ GetKey(w)
          \/ CtxRead(w)
          \/ ReplyFinished(w, FifoReplies, MaxFails)
          \/ AfterWait(w)
          \/ Len(gh.appended) < MaxPairLog /\ Process(w)
          \/ PtRet(w)
          \/ HFin(w)
    \/ UpdateConfigBegin(CapConfigs)
    \/ UpdateConfigApply
    \/ ClearBegin
    \/ ClearEnd

SpecFifo == InitFifo /\ [][NextFifo]_vars

\* the longest suffix of at most n elements of s
LastN(s, n) ==
    IF Len(s) <= n THEN s ELSE SubSeq(s, Len(s) - n + 1, Len(s))

IsSuffix(t, s) == Len(t) <= Len(s) /\ t = LastN(s, Len(t))

\* the step of worker w is the history read of an attempt
IsRead(w) == wk[w].pc = "ctxread" /\ wk'[w].pc = "wait"

\* the step of worker w appends a pair
IsAppend(w) == gh'.w[w].nAppend = gh.w[w].nAppend + 1

\* C19 as stated: the history read with cap c, and the stored history after
\* an append, is the longest suffix of at most c pairs of the pairs appended
\* since the entry was created or last cleared.
C19_LongestSuffixOfAppended ==
    [][\A w \in FifoWorkers :
          LET c == wk[w].cfg.context_num
          IN  /\ IsRead(w) =>
                     wk'[w].sent.history = LastN(gh.appended, c)
              /\ IsAppend(w) =>
                     m_contexts'["id1"].history = LastN(gh'.appended, c)]_vars

\* C19: the history of a client is a suffix, in append order, of the pairs
\* appended since its entry was created or the store last cleared, of at
\* most the stored cap; the history read with cap c is the longest suffix of
\* at most c pairs of the history stored before the read, empty with c = 0,
\* and the history after an append is the longest suffix of at most the
\* stored cap of the history before it with the pair added: only oldest
\* pairs are dropped, and a dropped pair does not come back.
C19_FifoSuffix ==
    /\ [](\A id \in DOMAIN m_contexts :
             /\ IsSuffix(m_contexts[id].history, gh.appended)
             /\ Len(m_contexts[id].history) <= m_contexts[id].max_len)
    /\ [][\A w \in FifoWorkers :
             LET c == wk[w].cfg.context_num
                 before == EntryOf(m_contexts, "id1", 0).history
             IN  /\ IsRead(w) =>
                        /\ wk'[w].sent.history = LastN(before, c)
                        /\ m_contexts'["id1"].history = LastN(before, c)
                        /\ c = 0 => wk'[w].sent.history = <<>>
                 /\ IsAppend(w) =>
                        m_contexts'["id1"].history =
                            LastN(Append(before, gh'.appended[
                                                     Len(gh'.appended)]),
                                  m_contexts'["id1"].max_len)]_vars

\* an attempt has read, with cap 2, a history of one pair, three pairs
\* having been appended: the second was dropped by an append under cap 1
C19_Witness ==
    \E w \in FifoWorkers :
        /\ wk[w].pc = "wait"
        /\ wk[w].cfg.context_num = 2
        /\ Len(gh.appended) = 3
        /\ gh.appended[2] # gh.appended[3]
        /\ wk[w].sent.history = <<gh.appended[3]>>
        /\ m_contexts["id1"] = [max_len |-> 2,
                                history |-> <<gh.appended[3]>>]

-----------------------------------------------------------------------------
(* The pairs a request appends.                                            *)

\* C21: an attempt appends a pair only if its result passes validation, an
\* attempt that fails appends nothing, and a request appends at most one
\* pair: its user turn is the attempt's pre_prompt followed by its processed
\* text, its assistant turn the result the attempt returns.
C21_OnePairPerRequest ==
    /\ [](\A w \in ReqWorkers : gh.w[w].nAppend <= 1)
    /\ [][\A w \in ReqWorkers :
             LET id == generateClientId(wk[w].clientIP)
                 result == wk'[w].attemptResult
                 pair == <<wk[w].cfg.pre_prompt
                               \o freezeEscapesLocal(wk[w].text).text,
                           result>>
             IN  /\ IsAppend(w) =>
                        /\ wk[w].pc = "process" /\ wk'[w].pc = "pt_ret"
                        /\ result # <<>>
                        /\ ~StartsWithCI(result, STR_ERROR)
                        /\ ~ContainsCI(result, STR_CN_FAILED)
                        /\ ~ContainsCI(result, STR_TRANSLATION_FAILED)
                        /\ m_contexts'[id].history =
                               TrimFront(
                                   Append(EntryOf(m_contexts, id, 0).history,
                                          pair),
                                   m_contexts'[id].max_len)
                 /\ (/\ wk[w].pc \in InAttempt /\ wk'[w].pc = "pt_ret"
                     /\ result = <<>>) =>
                        /\ m_contexts' = m_contexts
                        /\ gh'.w[w].nAppend = gh.w[w].nAppend
                 /\ (m_contexts' # m_contexts /\ wk'[w] # wk[w]) =>
                        \/ IsAppend(w)
                        \/ wk[w].pc = "ctxread"]_vars

\* a request answered 200 with the result of a later attempt, which appended
\* the one pair after an attempt that failed
C21_Witness ==
    \E w \in ReqWorkers :
        /\ wk[w].pc = "idle" /\ wk[w].http # Nil /\ wk[w].http.status = 200
        /\ gh.w[w].nAttempts >= 2
        /\ gh.w[w].nAppend = 1
        /\ \E id \in DOMAIN m_contexts :
              /\ m_contexts[id].history # <<>>
              /\ m_contexts[id].history[Len(m_contexts[id].history)][2]
                     = wk[w].http.body

-----------------------------------------------------------------------------
(* The key of a request sent upstream.                                     *)

\* C22: the key an attempt sends is a key of the pool derived from the
\* configuration snapshot the attempt read, whose api_address and model_name
\* the request carries.
C22_KeyOfSnapshot ==
    \A w \in ReqWorkers :
        wk[w].sent # Nil =>
            /\ wk[w].sent.url = wk[w].cfg.api_address
            /\ wk[w].sent.model = wk[w].cfg.model_name
            /\ \E i \in 1..Len(ParseKeys(wk[w].cfg)) :
                  ParseKeys(wk[w].cfg)[i] = wk[w].sent.key


----------------------------------------------------------------------------
\* The key cursor under reloads that shrink or empty the pool.

\* Configurations whose api_key parses to pools of 0, 1 and 2 keys
\* (lines 154-155: split on ',', trimmed, empty pieces dropped).
CursorConfigs ==
    {[CfgA EXCEPT !.api_key = k, !.context_num = 0] :
        k \in {<<" ", ",">>, <<"a">>, <<"a", ",", " ", "b">>}}

\* Two workers of a listening server call getNextApiKey (line 352) while
\* the UI thread calls updateConfig (lines 145-161) with pools of every
\* size, the run starting after the first updateConfig.
InitCursor == \E c \in CursorConfigs : InitWith(KeyWorkers, c, TRUE, FALSE)

NextCursor ==
    \/ \E w \in KeyWorkers :
          \/ Accept(w, {<<"h">>}, {"ip1"})
          \/ HandlerStart(w)
          \/ PtHead(w)
          \/ Backoff(w)
          \/ AttStart(w)
          \/ GetKey(w)
          \/ CtxRead(w)
          \/ ReplyFinished(w, CtxReplies, MaxFails)
          \/ AfterWait(w)
          \/ Process(w)
          \/ PtRet(w)
          \/ HFin(w)
    \/ UpdateConfigBegin(CursorConfigs)
    \/ UpdateConfigApply

SpecCursor == InitCursor /\ [][NextCursor]_vars

----------------------------------------------------------------------------
\* Waiting for the three locks: who waits for whom, and for how long.

\* a second thread that calls updateConfig, getConfig and clearAllContexts
\* while the UI thread is inside a call of its own
LockCallers == {"c1"}
CallerEntries == {"u147", "g166", "c591"}
WaitThreads == {"ui", "sv"} \cup LockWorkers \cup LockCallers

\* caller c begins updateConfig (145), getConfig (165) or
\* clearAllContexts (590)
LkCall(c) ==
    /\ wk[c].pc = "idle"
    /\ \E e \in CallerEntries : SetWk(c, [wk[c] EXCEPT !.pc = e])
    /\ UNCHANGED <<m_config, m_apiKeys, m_currentKeyIndex, m_contexts,
                   m_stopRequested, m_running, m_svr, mutex, ui, sv, gh>>

\* caller c executes its next lock operation
LkCaller(c) ==
    /\ wk[c].pc \in DOMAIN UiLocks
    /\ \E nxt \in DOMAIN UiLocks \cup {"idle"} :
          /\ LockDo(c, wk[c].pc, nxt)
          /\ SetWk(c, [wk[c] EXCEPT !.pc = nxt])
    /\ UNCHANGED <<m_config, m_apiKeys, m_currentKeyIndex, m_contexts,
                   m_stopRequested, m_running, m_svr, ui, sv, gh>>

InitWait == InitWith(LockWorkers \cup LockCallers, CfgA, FALSE, FALSE)

NextWait ==
    \/ LkUiCall
    \/ LkUi
    \/ LkSv
    \/ \E w \in LockWorkers : LkAccept(w) \/ LkWk(w)
    \/ \E c \in LockCallers : LkCall(c) \/ LkCaller(c)

\* Every thread that can execute a lock operation eventually executes it:
\* a thread inside a lock_guard's scope runs on to the closing brace, and
\* a thread in a lock_guard's constructor gets the lock if the lock is
\* free again and again (std::mutex itself promises no order among the
\* waiting threads).  Requests and calls arrive as they please.
WaitFairness ==
    /\ SF_vars(LkUi)
    /\ SF_vars(LkSv)
    /\ \A w \in LockWorkers : SF_vars(LkWk(w))
    /\ \A c \in LockCallers : SF_vars(LkCaller(c))

SpecWait == InitWait /\ [][NextWait]_vars /\ WaitFairness

\* the lock operation thread t executes next, if it is at one
PosOf(t) == IF t = "ui" THEN ui.pc ELSE IF t = "sv" THEN sv ELSE wk[t].pc
AtAcquire(t) ==
    /\ PosOf(t) \in DOMAIN LockCode
    /\ LockCode[PosOf(t)].op = "acq"
\* thread t is in the constructor of a lock_guard of lock l
Wants(t, l) == AtAcquire(t) /\ LockCode[PosOf(t)].lock = l
\* thread t is blocked: the lock it wants is held
Blocked(t) == AtAcquire(t) /\ mutex[LockCode[PosOf(t)].lock] # "free"

\* no set of threads each blocked on a lock held by a thread of the set
NoWaitCycle ==
    \A S \in (SUBSET WaitThreads) \ {{}} :
        \E t \in S :
            ~(Blocked(t) /\ mutex[LockCode[PosOf(t)].lock] \in S)

\* C24: with two workers, the server thread and two threads calling
\* updateConfig, getConfig and clearAllContexts, no reachable state has a
\* set of threads each blocked on a lock held by another thread of the
\* set, and a thread that is acquiring a lock eventually holds it.
C24_DeadlockFree ==
    /\ []NoWaitCycle
    /\ \A t \in WaitThreads : \A l \in LockNames :
          Wants(t, l) ~> (mutex[l] = t)

\* A chain of blocked threads that closes no cycle: one caller is inside
\* clearAllContexts with the context and the config lock, the other inside
\* updateConfig holds the credential lock and is blocked on the config
\* lock, one worker is blocked on the credential lock in getNextApiKey
\* and the other on the context lock.
C24_Witness ==
    /\ \E a, b \in {"ui"} \cup LockCallers :
          /\ a # b
          /\ HeldBy(a) = {"context", "config"}
          /\ HeldBy(b) = {"key"} /\ Wants(b, "config")
    /\ \E w, v \in LockWorkers :
          /\ w # v
          /\ Wants(w, "key") /\ Blocked(w)
          /\ Wants(v, "context") /\ Blocked(v)

=============================================================================
